---- MODULE Spec2Model ----
(***************************************************************************)
(* Verification model of the newsletter subscription route                 *)
(* (sites/web/src/app/api/subscribe/route.ts): the in-memory rate limiter, *)
(* its periodic sweep, the spam heuristics and the POST handler; and of    *)
(* the email validator (validateEmailAdvanced, validateEmail); and of the  *)
(* utilities throttle (apps/web/src/utils/throttle.ts), debounce           *)
(* (sites/web/src/utils/debounce.ts), the footer newsletter form and the   *)
(* CSS variable resolution of packages/tailwind-config/scripts/            *)
(* build-static-css.ts.                                                    *)
(*                                                                         *)
(* Strings are sequences of one-character strings so that the regular      *)
(* expressions of the route can be evaluated on them.  Times are epoch     *)
(* milliseconds; the clock starts at 0 when the module is loaded.          *)
(***************************************************************************)
EXTENDS Integers, Sequences, FiniteSets, TLC

VARIABLES
    now,              \* Date.now()
    nextSweep,        \* earliest time the setInterval callback may run next
    emailRateLimits,  \* the Map<string, RateLimitRecord>, a function on its keys
    maxRequests,      \* the maxRequests argument of checkRateLimit
    windowMs,         \* the windowMs argument of checkRateLimit
    ncalls,           \* number of checkRateLimit calls made so far
    last,             \* what the most recent step did (observation)
    streak,           \* per key: calls since the record was created or reset
    windowStart,      \* per key: time of the call that created or reset the record
    winNo,            \* per key: number of creations/resets so far
    everLast,         \* per key: the lastAttempt most recently stored, -1 if never
    lastCallAt,       \* per key: the time of the most recent checkRateLimit call, -1 if never
    admits,           \* per key: the calls that returned limited = false, in order
    apiKey,           \* process.env.MAILERLITE_API_KEY is set
    profile,          \* which request bodies and how many handlers the run uses
    pc,               \* per handler: "idle", "json" (awaiting req.json()), "fetch"
    req,              \* per handler: the parsed body while its fetch is in flight
    posts,            \* number of POST invocations so far
    sent,             \* per handler: HTTP requests sent to the provider by its invocation
    ended,            \* per key, followed under the profile "retry": when a request
                      \* of it last passed the limiter (at) and how a request that
                      \* did last ended or stands (how)
    emailIn,          \* the email argument of the validator
    options,          \* the options argument of validateEmailAdvanced
    result,           \* what the validator returned, NotValidated before the call
    clock,            \* Date.now() as the throttle and the debounce see it
    thrConfig,        \* throttle: intervalMs, leading, trailing after the defaults
    thr,              \* throttle: lastArgs, lastCallTime, lastInvokeTime, timerId of
                      \* the closure, its pending timers, the invocations of fn and
                      \* whether cancel or flush was ever called
    waitMs,           \* debounce: the waitMs argument
    deb,              \* debounce: timeoutId of the closure, its pending timers and
                      \* the invocations of fn
    form,             \* FooterNewsletterForm: the email state, what the last render
                      \* shows and handed to handleSubmit, the onSubmit calls
    cssRun            \* a run of resolveFontVariables or resolveNonFontVariables

ghostvars == <<ncalls, streak, windowStart, winNo, everLast, lastCallAt, admits>>

postvars == <<apiKey, profile, pc, req, posts, sent, ended>>

valvars == <<emailIn, options, result>>

routevars == <<now, nextSweep, emailRateLimits, maxRequests, windowMs,
               ghostvars, postvars>>

utilvars == <<clock, thrConfig, thr, waitMs, deb, form, cssRun>>

vars == <<now, nextSweep, emailRateLimits, maxRequests, windowMs, last,
          ghostvars, postvars, valvars, utilvars>>

-----------------------------------------------------------------------------
(* Bounds of the model *)

MaxDays == 2        \* the clock runs over days 0..MaxDays
MaxExtraMs == 1     \* and over 0..MaxExtraMs milliseconds into each day
MaxCalls == 4       \* checkRateLimit calls per behaviour
MaxMaxRequests == 2 \* maxRequests arguments 1..MaxMaxRequests
MaxHandlers == 2    \* POST handlers in flight together
MaxPosts == 3       \* POST invocations per behaviour of the server
MaxRequestPosts == 2 \* POST invocations per behaviour when every sample body is tried
MaxFairPosts == 2   \* POST invocations per behaviour when termination is checked
MaxRetryPosts == 2  \* POST invocations per behaviour when endings are followed
MaxIntervalMs == 2  \* intervalMs and waitMs arguments 0..MaxIntervalMs
MaxClock == 5       \* the throttle and the debounce are followed up to this time
MaxThrottleCalls == 3 \* calls of a throttled function per behaviour
MaxDebounceCalls == 3 \* calls of a debounced function per behaviour
StackLimit == 6     \* nested calls the JavaScript engine allows before RangeError
MaxFormEvents == 5  \* change and submit events on the newsletter form per behaviour

-----------------------------------------------------------------------------
(* Program constants *)

EMAIL_MAX_REQUESTS == 1
EMAIL_WINDOW_MS == 86400000
MIN_SUBMISSION_TIME_MS == 2000
cleanupInterval == 24 * 60 * 60 * 1000

-----------------------------------------------------------------------------
(* Characters and strings *)

LowerLetters == <<"a","b","c","d","e","f","g","h","i","j","k","l","m",
                  "n","o","p","q","r","s","t","u","v","w","x","y","z">>
UpperLetters == <<"A","B","C","D","E","F","G","H","I","J","K","L","M",
                  "N","O","P","Q","R","S","T","U","V","W","X","Y","Z">>
Digits == {"0","1","2","3","4","5","6","7","8","9"}
Whitespace == {" ", "\t", "\n", "\r"}

Range(f) == {f[i] : i \in DOMAIN f}

IsLetter(c) == c \in Range(LowerLetters) \cup Range(UpperLetters)

\* String.prototype.toLowerCase on one character and on a string
LowerChar(c) ==
    IF c \in Range(UpperLetters)
    THEN LowerLetters[CHOOSE i \in DOMAIN UpperLetters : UpperLetters[i] = c]
    ELSE c

toLowerCase(str) == [i \in DOMAIN str |-> LowerChar(str[i])]

\* pat occurs in str
Includes(str, pat) ==
    \E i \in 1..(Len(str) - Len(pat) + 1) : SubSeq(str, i, i + Len(pat) - 1) = pat

\* n or more characters of class, directly followed by "@"
RunBeforeAt(str, n, class) ==
    \E i \in (n + 1)..Len(str) :
        /\ str[i] = "@"
        /\ \A k \in (i - n)..(i - 1) : str[k] \in class

Rep(c, n) == [i \in 1..n |-> c]

\* How many of the booleans of a sequence are true
Count(flags) == Cardinality({i \in DOMAIN flags : flags[i]})

-----------------------------------------------------------------------------
(* Sample strings *)

E_ok       == <<"n","e","w",".","u","s","e","r","@","g","m","a","i","l",".","c","o","m">>
E_okUpper  == <<"N","e","w",".","U","s","e","r","@","g","m","a","i","l",".","c","o","m">>
E_noAt     == <<"n","e","w","u","s","e","r",".","c","o","m">>
E_noDot    == <<"j","o","@","g","m","a","i","l">>
E_testTest == <<"t","e","s","t","@","t","e","s","t",".","c","o","m">>
E_testBare == <<"T","e","s","t","@","t","e","s","t">>
E_example  == <<"e","x","a","m","p","l","e","@","x",".","i","o">>
E_digits   == <<"1","2","3","4","5","6","7","8","@","x",".","i","o">>
E_tempDom  == <<"j","o","@","T","e","m","p",".","i","o">>
E_longLocal == Rep("q", 20) \o <<"@","x",".","i","o">>

N_ok      == <<"J","o","-","A","n","n"," ","O","'","N">>
N_digit   == <<"J","0">>
N_blank   == <<" ">>
N_long    == Rep("a", 51)

V_dots     == <<"a",".",".","b","@","x",".","i","o">>
V_local64  == Rep("q", 64) \o <<"@","x",".","i","o">>
V_local65  == Rep("q", 65) \o <<"@","x",".","i","o">>
V_host     == Rep("b", 63) \o <<".">> \o Rep("b", 63) \o <<".">> \o Rep("b", 63)
                 \o <<".","i","o">>
V_len254   == Rep("a", 59) \o <<"@">> \o V_host
V_len255   == Rep("a", 60) \o <<"@">> \o V_host
V_padded   == <<" ">> \o E_ok \o <<" ", "\n">>
V_hyphen   == <<"j","o","@","-","x",".","i","o">>
V_label64  == <<"j","o","@">> \o Rep("b", 64) \o <<".","i","o">>
V_yop      == <<"j","o","@","y","o","p","m","a","i","l",".","c","o","m">>
V_local    == <<"j","o","@","x",".","l","o","c","a","l">>
V_simple   == <<"a","b","@","c","d">>
V_shortTld == <<"j","@","x",".","c">>
V_blank    == <<" ", " ">>

D_gmail    == <<"g","m","a","i","l",".","c","o","m">>

S_url     == <<"h","t","t","p">>
S_topic   == <<"t","l","a">>

\* The sample emails that pass every check of the handler: the strings that
\* become keys of the table
Keys == {E_ok, E_okUpper}

-----------------------------------------------------------------------------
(* JavaScript values of the request body *)

Undefined == [t |-> "undefined"]
Str(chars) == [t |-> "string", v |-> chars]
Num(n) == [t |-> "number", v |-> n]

Null == [t |-> "null"]

\* ToBoolean
Truthy(x) ==
    CASE x.t = "undefined" -> FALSE
      [] x.t = "null" -> FALSE
      [] x.t = "string" -> Len(x.v) > 0
      [] x.t = "number" -> x.v # 0

\* x < n for a number n: undefined converts to NaN and compares false
LessThan(x, n) ==
    CASE x.t = "undefined" -> FALSE
      [] x.t = "number" -> x.v < n

-----------------------------------------------------------------------------
(* The utilities before their first use *)

\* throttle(fn) with no options: the defaults of the destructuring
ThrottleDefaults == [intervalMs |-> 100, leading |-> TRUE, trailing |-> FALSE]

\* The closure of throttle when it returns, no timer set and fn never invoked
FreshThrottle ==
    [lastArgs |-> Undefined, lastCallTime |-> Undefined, lastInvokeTime |-> 0,
     timerId |-> Undefined, timers |-> {}, nextTimer |-> 1,
     invoked |-> <<>>, calls |-> 0, controlled |-> FALSE]

\* The closure of debounce when it returns
FreshDebounce ==
    [timeoutId |-> Null, timers |-> {}, nextTimer |-> 1,
     invoked |-> <<>>, calls |-> 0, callTimes |-> <<>>, cancelled |-> {}]

\* FooterNewsletterForm after its first render
FreshForm(hasOnSubmit) ==
    [email |-> <<>>, value |-> <<>>, handlerEmail |-> <<>>,
     hasOnSubmit |-> hasOnSubmit, onSubmitCalls |-> <<>>,
     prevented |-> 0, typed |-> <<>>, changes |-> 0, submits |-> 0]

UtilIdle ==
    /\ clock = 0
    /\ thrConfig = ThrottleDefaults
    /\ thr = FreshThrottle
    /\ waitMs = 0
    /\ deb = FreshDebounce
    /\ form = FreshForm(FALSE)
    /\ cssRun = [fn |-> "none"]

-----------------------------------------------------------------------------
(* The regular expressions of the route *)

\* /^[^\s@]+@[^\s@]+\.[^\s@]+$/
EMAIL_REGEX(str) ==
    \E i \in 2..Len(str) :
        /\ str[i] = "@"
        /\ \A k \in (DOMAIN str) \ {i} : str[k] \notin Whitespace \cup {"@"}
        /\ \E j \in (i + 2)..(Len(str) - 1) : str[j] = "."

\* /^[a-zA-Z\s'-]{0,50}$/
NAME_REGEX(str) ==
    /\ Len(str) <= 50
    /\ \A k \in DOMAIN str : IsLetter(str[k]) \/ str[k] \in Whitespace \cup {"'", "-"}

\* SPAM_EMAIL_PATTERNS, all case-insensitive
SpamPattern1(str) == Includes(toLowerCase(str), <<"t","e","s","t","@","t","e","s","t">>)
SpamPattern2(str) == Includes(toLowerCase(str), <<"e","x","a","m","p","l","e","@">>)
SpamPattern3(str) == RunBeforeAt(str, 8, Digits)
SpamPattern4(str) ==
    \E w \in {<<"@","e","x","a","m","p","l","e">>, <<"@","t","e","s","t">>,
              <<"@","t","e","m","p">>, <<"@","f","a","k","e">>} :
        Includes(toLowerCase(str), w)
SpamPattern5(str) == RunBeforeAt(toLowerCase(str), 20, Range(LowerLetters) \cup Digits)

isSpamEmail(str) ==
    \/ SpamPattern1(str)
    \/ SpamPattern2(str)
    \/ SpamPattern3(str)
    \/ SpamPattern4(str)
    \/ SpamPattern5(str)

-----------------------------------------------------------------------------
(* The arguments and the result of the email validator *)

\* The options when none are given
DefaultOptions ==
    [level |-> "standard", checkDisposable |-> FALSE, detectSpam |-> FALSE,
     blockedDomains |-> <<>>, allowedDomains |-> <<>>, maxLength |-> 254]

NotValidated == [fn |-> "none"]

-----------------------------------------------------------------------------
(* The clock *)

Handlers == 1..MaxHandlers

NoBody == [json |-> FALSE, none |-> TRUE]

Deltas(prof) == IF prof \in {"request", "fair"} THEN {EMAIL_WINDOW_MS + 1} ELSE {1, EMAIL_WINDOW_MS}

ClockOk(t) == t \div EMAIL_WINDOW_MS <= MaxDays /\ t % EMAIL_WINDOW_MS <= MaxExtraMs

Max(a, b) == IF a >= b THEN a ELSE b

-----------------------------------------------------------------------------
(* The rate limiter *)

MapSet_dropOthers(cache, key, rec) ==
    [k \in {key} |-> rec]

MapSet(cache, key, rec) ==
    [k \in DOMAIN cache \cup {key} |-> IF k = key THEN rec ELSE cache[k]]

\* Variants of checkRateLimit and cleanup with one slip each.
checkRateLimit_limitAtMax(cache, key, maxReq, winMs, t) ==
    IF key \notin DOMAIN cache \/ t - cache[key].lastAttempt > winMs
    THEN [cache |-> MapSet(cache, key, [count |-> 1, lastAttempt |-> t]),
          limited |-> FALSE,
          remainingRequests |-> maxReq - 1,
          resetTime |-> t + winMs]
    ELSE LET record == [count |-> cache[key].count + 1, lastAttempt |-> t]
         IN  [cache |-> MapSet(cache, key, record),
              limited |-> record.count >= maxReq,
              remainingRequests |-> Max(0, maxReq - record.count),
              resetTime |-> record.lastAttempt + winMs]

checkRateLimit_noExpiry(cache, key, maxReq, winMs, t) ==
    IF key \notin DOMAIN cache
    THEN [cache |-> MapSet(cache, key, [count |-> 1, lastAttempt |-> t]),
          limited |-> FALSE,
          remainingRequests |-> maxReq - 1,
          resetTime |-> t + winMs]
    ELSE LET record == [count |-> cache[key].count + 1, lastAttempt |-> t]
         IN  [cache |-> MapSet(cache, key, record),
              limited |-> record.count > maxReq,
              remainingRequests |-> Max(0, maxReq - record.count),
              resetTime |-> record.lastAttempt + winMs]

checkRateLimit_zeroStamp(cache, key, maxReq, winMs, t) ==
    IF key \notin DOMAIN cache \/ t - cache[key].lastAttempt > winMs
    THEN [cache |-> MapSet(cache, key, [count |-> 1, lastAttempt |-> 0]),
          limited |-> FALSE,
          remainingRequests |-> maxReq - 1,
          resetTime |-> t + winMs]
    ELSE LET record == [count |-> cache[key].count + 1, lastAttempt |-> t]
         IN  [cache |-> MapSet(cache, key, record),
              limited |-> record.count > maxReq,
              remainingRequests |-> Max(0, maxReq - record.count),
              resetTime |-> record.lastAttempt + winMs]

checkRateLimit_expireAtWindow(cache, key, maxReq, winMs, t) ==
    IF key \notin DOMAIN cache \/ t - cache[key].lastAttempt >= winMs
    THEN [cache |-> MapSet(cache, key, [count |-> 1, lastAttempt |-> t]),
          limited |-> FALSE,
          remainingRequests |-> maxReq - 1,
          resetTime |-> t + winMs]
    ELSE LET record == [count |-> cache[key].count + 1, lastAttempt |-> t]
         IN  [cache |-> MapSet(cache, key, record),
              limited |-> record.count > maxReq,
              remainingRequests |-> Max(0, maxReq - record.count),
              resetTime |-> record.lastAttempt + winMs]

checkRateLimit_lostUpdate(cache, key, maxReq, winMs, t) ==
    IF key \notin DOMAIN cache \/ t - cache[key].lastAttempt > winMs
    THEN [cache |-> MapSet(cache, key, [count |-> 1, lastAttempt |-> t]),
          limited |-> FALSE,
          remainingRequests |-> maxReq - 1,
          resetTime |-> t + winMs]
    ELSE LET record == [count |-> cache[key].count, lastAttempt |-> t]
         IN  [cache |-> MapSet(cache, key, record),
              limited |-> record.count > maxReq,
              remainingRequests |-> Max(0, maxReq - record.count),
              resetTime |-> record.lastAttempt + winMs]

checkRateLimit_keepStamp(cache, key, maxReq, winMs, t) ==
    IF key \notin DOMAIN cache \/ t - cache[key].lastAttempt > winMs
    THEN [cache |-> MapSet(cache, key, [count |-> 1, lastAttempt |-> t]),
          limited |-> FALSE,
          remainingRequests |-> maxReq - 1,
          resetTime |-> t + winMs]
    ELSE LET record == [count |-> cache[key].count + 1,
                        lastAttempt |-> cache[key].lastAttempt]
         IN  [cache |-> MapSet(cache, key, record),
              limited |-> record.count > maxReq,
              remainingRequests |-> Max(0, maxReq - record.count),
              resetTime |-> record.lastAttempt + winMs]

checkRateLimit_stampOnAdmit(cache, key, maxReq, winMs, t) ==
    IF key \notin DOMAIN cache \/ t - cache[key].lastAttempt > winMs
    THEN [cache |-> MapSet(cache, key, [count |-> 1, lastAttempt |-> t]),
          limited |-> FALSE,
          remainingRequests |-> maxReq - 1,
          resetTime |-> t + winMs]
    ELSE LET record == [count |-> cache[key].count + 1,
                        lastAttempt |-> IF cache[key].count + 1 > maxReq
                                        THEN cache[key].lastAttempt ELSE t]
         IN  [cache |-> MapSet(cache, key, record),
              limited |-> record.count > maxReq,
              remainingRequests |-> Max(0, maxReq - record.count),
              resetTime |-> record.lastAttempt + winMs]

checkRateLimit(cache, key, maxReq, winMs, t) ==
    IF key \notin DOMAIN cache \/ t - cache[key].lastAttempt > winMs
    THEN [cache |-> MapSet(cache, key, [count |-> 1, lastAttempt |-> t]),
          limited |-> FALSE,
          remainingRequests |-> maxReq - 1,
          resetTime |-> t + winMs]
    ELSE LET record == [count |-> cache[key].count + 1, lastAttempt |-> t]
         IN  [cache |-> MapSet(cache, key, record),
              limited |-> record.count > maxReq,
              remainingRequests |-> Max(0, maxReq - record.count),
              resetTime |-> record.lastAttempt + winMs]

cleanup_atHorizon(cache, t) ==
    [k \in {e \in DOMAIN cache : ~(t - cache[e].lastAttempt >= cleanupInterval)}
        |-> cache[k]]

cleanup_inverted(cache, t) ==
    [k \in {e \in DOMAIN cache : ~(t - cache[e].lastAttempt < cleanupInterval)}
        |-> cache[k]]

cleanup(cache, t) ==
    [k \in {e \in DOMAIN cache : ~(t - cache[e].lastAttempt > cleanupInterval)}
        |-> cache[k]]

\* The record of key is absent or older than the window at time t.
Fresh(cache, key, winMs, t) ==
    key \notin DOMAIN cache \/ t - cache[key].lastAttempt > winMs

\* Bookkeeping of a checkRateLimit call on key with result r.
Observe(key, r) ==
    LET fresh == Fresh(emailRateLimits, key, windowMs, now)
    IN  /\ ncalls' = ncalls + 1
        /\ streak' = [streak EXCEPT ![key] = IF fresh THEN 1 ELSE @ + 1]
        /\ windowStart' = [windowStart EXCEPT ![key] = IF fresh THEN now ELSE @]
        /\ winNo' = [winNo EXCEPT ![key] = IF fresh THEN @ + 1 ELSE @]
        /\ everLast' = [everLast EXCEPT ![key] = r.cache[key].lastAttempt]
        /\ lastCallAt' = [lastCallAt EXCEPT ![key] = now]
        /\ admits' = IF r.limited THEN admits
                     ELSE [admits EXCEPT ![key] =
                              Append(@, [time |-> now, win |-> winNo'[key]])]

NoOp == [op |-> "none"]

RLInit ==
    /\ now = 0
    /\ nextSweep = cleanupInterval
    /\ emailRateLimits = <<>>
    /\ maxRequests \in 1..MaxMaxRequests
    /\ windowMs \in {1, EMAIL_WINDOW_MS}
    /\ ncalls = 0
    /\ last = NoOp
    /\ streak = [k \in Keys |-> 0]
    /\ windowStart = [k \in Keys |-> 0]
    /\ winNo = [k \in Keys |-> 0]
    /\ everLast = [k \in Keys |-> -1]
    /\ lastCallAt = [k \in Keys |-> -1]
    /\ admits = [k \in Keys |-> <<>>]
    /\ apiKey = TRUE
    /\ profile = "limiter"
    /\ pc = [h \in Handlers |-> "idle"]
    /\ req = [h \in Handlers |-> NoBody]
    /\ posts = 0
    /\ sent = [h \in Handlers |-> 0]
    /\ ended = [k \in Keys |-> [how |-> "none", at |-> -1]]
    /\ emailIn = Null
    /\ options = DefaultOptions
    /\ result = NotValidated
    /\ UtilIdle

Tick ==
    \E d \in Deltas(profile) :
        /\ ClockOk(now + d)
        /\ now' = now + d
        /\ last' = [op |-> "tick"]
        /\ UNCHANGED <<nextSweep, emailRateLimits, maxRequests, windowMs,
                       ghostvars, postvars, valvars, utilvars>>

Sweep ==
    /\ now >= nextSweep
    /\ emailRateLimits' = cleanup(emailRateLimits, now)
    /\ nextSweep' = now + cleanupInterval
    /\ last' = [op |-> "sweep"]
    /\ UNCHANGED <<now, maxRequests, windowMs, ghostvars, postvars, valvars, utilvars>>

Call ==
    \E key \in Keys :
        /\ ncalls < MaxCalls
        /\ LET r == checkRateLimit(emailRateLimits, key, maxRequests, windowMs, now)
           IN  /\ emailRateLimits' = r.cache
               /\ last' = [op |-> "check", key |-> key,
                           fresh |-> Fresh(emailRateLimits, key, windowMs, now),
                           prevCount |-> IF key \in DOMAIN emailRateLimits
                                         THEN emailRateLimits[key].count ELSE 0,
                           startBefore |-> windowStart[key],
                           winBefore |-> winNo[key],
                           limited |-> r.limited,
                           remainingRequests |-> r.remainingRequests,
                           resetTime |-> r.resetTime]
               /\ Observe(key, r)
        /\ UNCHANGED <<now, nextSweep, maxRequests, windowMs, postvars, valvars, utilvars>>

RLNext == Tick \/ Sweep \/ Call

SpecRL == RLInit /\ [][RLNext]_vars

-----------------------------------------------------------------------------
(* The POST handler *)

\* A body that req.json() rejects, or that cannot be destructured (null)
Malformed == [json |-> FALSE]

ObjectBodies(emails, names, interestss, websites, times) ==
    {[json |-> TRUE, email |-> e, name |-> n, interests |-> i,
      website |-> w, submissionTime |-> st] :
        e \in emails, n \in names, i \in interestss, w \in websites, st \in times}

AllBodies ==
    ObjectBodies({Undefined, Str(<<>>), Str(E_ok), Str(E_okUpper), Str(E_noAt),
                  Str(E_noDot), Str(E_testTest), Str(E_testBare), Str(E_example),
                  Str(E_digits), Str(E_tempDom), Str(E_longLocal)},
                 {Undefined, Str(<<>>), Str(N_ok), Str(N_digit), Str(N_blank), Str(N_long)},
                 {Undefined, Str(S_topic)},
                 {Undefined, Str(<<>>), Str(S_url)},
                 {Undefined, Num(500), Num(MIN_SUBMISSION_TIME_MS - 1),
                  Num(MIN_SUBMISSION_TIME_MS), Num(5000)})
        \cup {Malformed}

FewBodies ==
    ObjectBodies({Str(E_ok), Str(E_okUpper)},
                 {Undefined},
                 {Undefined},
                 {Undefined, Str(S_url)},
                 {Num(5000)})
        \cup {Malformed}

\* Bodies that between them stop at every stage of the handler or pass them all
StageBodies ==
    ObjectBodies({Str(E_ok), Str(E_noAt), Str(E_testTest)},
                 {Undefined, Str(N_digit)},
                 {Undefined},
                 {Str(<<>>), Str(S_url)},
                 {Num(500), Num(5000)})
        \cup {Malformed}

Bodies(prof) ==
    CASE prof = "request" -> AllBodies
      [] prof = "fair" -> StageBodies
      [] OTHER -> FewBodies

PostsCap(prof) ==
    CASE prof = "request" -> MaxRequestPosts
      [] prof = "fair" -> MaxFairPosts
      [] prof = "retry" -> MaxRetryPosts
      [] OTHER -> MaxPosts

ActiveHandlers(prof) == IF prof = "request" THEN {1} ELSE Handlers

SampleEmails == {b.email.v : b \in {x \in AllBodies : x.json /\ x.email.t = "string"}}
SampleNames == {b.name.v : b \in {x \in AllBodies : x.json /\ x.name.t = "string"}}

\* The regular expressions evaluated once over the sample strings
EmailRegexMatches == {e \in SampleEmails : EMAIL_REGEX(e)}
SpamEmails == {e \in SampleEmails : isSpamEmail(e)}
NameRegexMatches == {n \in SampleNames : NAME_REGEX(n)}
BlankNames == {n \in SampleNames : \A k \in DOMAIN n : n[k] \in Whitespace}

\* NextResponse.json(...)
Success(code) == [status |-> code, success |-> TRUE, error |-> ""]
Failure(code, msg) == [status |-> code, success |-> FALSE, error |-> msg]

NoResult == [limited |-> FALSE, none |-> TRUE]

\* A handler that answers without calling checkRateLimit
Answer(stage, resp, cache) ==
    [done |-> TRUE, stage |-> stage, resp |-> resp, cache |-> cache,
     checked |-> FALSE, rl |-> NoResult]

\* subscriberData: the name only if it is not blank, the interests only if not empty
Payload(body) ==
    [email |-> body.email.v,
     name |-> IF Truthy(body.name) /\ body.name.v \notin BlankNames
              THEN body.name ELSE Undefined,
     interests |-> IF Truthy(body.interests) THEN body.interests ELSE Undefined]

\* The checks of the handler, in the order of the code
HoneypotTripped(body) == Truthy(body.website)

TooFast_flipped(body) ==
    body.submissionTime.t = "number" /\ body.submissionTime.v > MIN_SUBMISSION_TIME_MS

TooFast(body) == LessThan(body.submissionTime, MIN_SUBMISSION_TIME_MS)

InvalidEmail(body) == ~Truthy(body.email) \/ body.email.v \notin EmailRegexMatches

SpamEmail(body) == body.email.v \in SpamEmails

InvalidName_skipped(body) == FALSE

InvalidName(body) == Truthy(body.name) /\ body.name.v \notin NameRegexMatches

\* The fabricated successes and the errors
HoneypotResponse == Success(200)

TimingResponse == Success(200)

SpamResponse_visible == Failure(400, "Spam detected")

SpamResponse == Success(200)

BodyErrorResponse == Failure(400, "Failed to process request")

EmailErrorResponse == Failure(400, "Please provide a valid email address")

NameErrorResponse ==
    Failure(400, "Please provide a valid name (letters, spaces, hyphens, and apostrophes only)")

RateLimitResponse == Failure(429, "This email address has already been submitted recently.")

ApiKeyResponse ==
    Failure(500, "Newsletter service not configured. Please add MAILERLITE_API_KEY to .env.local")

NetworkErrorResponse == Failure(500, "Network error. Please try again later.")

NoResponse == [status |-> 0, success |-> FALSE, error |-> ""]

\* Variants of Admit with one slip each
Admit_ignoreLimit(body, cache, t, hasKey) ==
    LET emailLimitResult ==
            checkRateLimit(cache, body.email.v, EMAIL_MAX_REQUESTS, EMAIL_WINDOW_MS, t)
    IN  IF ~hasKey
        THEN [done |-> TRUE, stage |-> "apikey", resp |-> ApiKeyResponse,
              cache |-> emailLimitResult.cache,
              checked |-> TRUE, rl |-> emailLimitResult]
        ELSE [done |-> FALSE, stage |-> "fetch", resp |-> NoResponse,
              cache |-> emailLimitResult.cache,
              checked |-> TRUE, rl |-> emailLimitResult]

Admit_noKeyCheck(body, cache, t, hasKey) ==
    LET emailLimitResult ==
            checkRateLimit(cache, body.email.v, EMAIL_MAX_REQUESTS, EMAIL_WINDOW_MS, t)
    IN  IF emailLimitResult.limited
        THEN [done |-> TRUE, stage |-> "ratelimit", resp |-> RateLimitResponse,
              cache |-> emailLimitResult.cache,
              checked |-> TRUE, rl |-> emailLimitResult]
        ELSE [done |-> FALSE, stage |-> "fetch", resp |-> NoResponse,
              cache |-> emailLimitResult.cache,
              checked |-> TRUE, rl |-> emailLimitResult]

Admit_checkKeyFirst(body, cache, t, hasKey) ==
    LET emailLimitResult ==
            checkRateLimit(cache, body.email.v, EMAIL_MAX_REQUESTS, EMAIL_WINDOW_MS, t)
    IN  IF ~hasKey
        THEN [done |-> TRUE, stage |-> "apikey", resp |-> ApiKeyResponse,
              cache |-> cache,
              checked |-> FALSE, rl |-> NoResult]
        ELSE IF emailLimitResult.limited
        THEN [done |-> TRUE, stage |-> "ratelimit", resp |-> RateLimitResponse,
              cache |-> emailLimitResult.cache,
              checked |-> TRUE, rl |-> emailLimitResult]
        ELSE [done |-> FALSE, stage |-> "fetch", resp |-> NoResponse,
              cache |-> emailLimitResult.cache,
              checked |-> TRUE, rl |-> emailLimitResult]

\* After the checks: the rate limiter, the API key, the fetch call
Admit(body, cache, t, hasKey) ==
    LET emailLimitResult ==
            checkRateLimit(cache, body.email.v, EMAIL_MAX_REQUESTS, EMAIL_WINDOW_MS, t)
    IN  IF emailLimitResult.limited
        THEN [done |-> TRUE, stage |-> "ratelimit", resp |-> RateLimitResponse,
              cache |-> emailLimitResult.cache,
              checked |-> TRUE, rl |-> emailLimitResult]
        ELSE IF ~hasKey
        THEN [done |-> TRUE, stage |-> "apikey", resp |-> ApiKeyResponse,
              cache |-> emailLimitResult.cache,
              checked |-> TRUE, rl |-> emailLimitResult]
        ELSE [done |-> FALSE, stage |-> "fetch", resp |-> NoResponse,
              cache |-> emailLimitResult.cache,
              checked |-> TRUE, rl |-> emailLimitResult]

\* The handler with the name validated before the spam patterns are tried
HandlePost_nameBeforeSpam(body, cache, t, hasKey) ==
    IF ~body.json
    THEN Answer("body", BodyErrorResponse, cache)
    ELSE IF HoneypotTripped(body)
    THEN Answer("honeypot", HoneypotResponse, cache)
    ELSE IF TooFast(body)
    THEN Answer("timing", TimingResponse, cache)
    ELSE IF InvalidEmail(body)
    THEN Answer("email", EmailErrorResponse, cache)
    ELSE IF InvalidName(body)
    THEN Answer("name", NameErrorResponse, cache)
    ELSE IF SpamEmail(body)
    THEN Answer("spam", SpamResponse, cache)
    ELSE Admit(body, cache, t, hasKey)

\* The handler with the email validated before the honeypot and timing checks
HandlePost_validateFirst(body, cache, t, hasKey) ==
    IF ~body.json
    THEN Answer("body", BodyErrorResponse, cache)
    ELSE IF InvalidEmail(body)
    THEN Answer("email", EmailErrorResponse, cache)
    ELSE IF HoneypotTripped(body)
    THEN Answer("honeypot", HoneypotResponse, cache)
    ELSE IF TooFast(body)
    THEN Answer("timing", TimingResponse, cache)
    ELSE IF SpamEmail(body)
    THEN Answer("spam", SpamResponse, cache)
    ELSE IF InvalidName(body)
    THEN Answer("name", NameErrorResponse, cache)
    ELSE Admit(body, cache, t, hasKey)

\* The handler from the resolution of req.json() up to its response or up to
\* the fetch call, at time t with the table cache.
HandlePost(body, cache, t, hasKey) ==
    IF ~body.json
    THEN Answer("body", BodyErrorResponse, cache)
    ELSE IF HoneypotTripped(body)
    THEN Answer("honeypot", HoneypotResponse, cache)
    ELSE IF TooFast(body)
    THEN Answer("timing", TimingResponse, cache)
    ELSE IF InvalidEmail(body)
    THEN Answer("email", EmailErrorResponse, cache)
    ELSE IF SpamEmail(body)
    THEN Answer("spam", SpamResponse, cache)
    ELSE IF InvalidName(body)
    THEN Answer("name", NameErrorResponse, cache)
    ELSE Admit(body, cache, t, hasKey)

\* What the provider does with a request
Statuses == {201, 401, 404, 422, 429}

AllOutcomes ==
    {[kind |-> "throw"]}
        \cup {[kind |-> "response", status |-> st, parse |-> FALSE] : st \in Statuses}
        \cup {[kind |-> "response", status |-> st, parse |-> TRUE,
               null |-> n, message |-> m, errors |-> e] :
                 st \in Statuses, n \in {FALSE}, m \in {"", "provider message"},
                 e \in BOOLEAN}
        \cup {[kind |-> "response", status |-> st, parse |-> TRUE,
               null |-> TRUE, message |-> "", errors |-> FALSE] : st \in Statuses}

FewOutcomes ==
    {[kind |-> "throw"],
     [kind |-> "response", status |-> 201, parse |-> TRUE,
      null |-> FALSE, message |-> "", errors |-> FALSE],
     [kind |-> "response", status |-> 422, parse |-> TRUE,
      null |-> FALSE, message |-> "provider message", errors |-> TRUE]}

Outcomes(prof) == IF prof \in {"request", "fair"} THEN AllOutcomes ELSE FewOutcomes

\* What a non-2xx answer of the provider is turned into
UpstreamError(status, errorMessage) ==
    Failure(status, "Subscription failed: " \o errorMessage)

\* The handler with a parse failure of the provider's body left to the outer catch
HandleResponse_parseThrows(outcome) ==
    IF outcome.kind = "throw" \/ ~outcome.parse
    THEN [stage |-> "network", resp |-> NetworkErrorResponse]
    ELSE IF outcome.status \in 200..299
    THEN [stage |-> "accepted", resp |-> Success(200)]
    ELSE [stage |-> "upstream",
          resp |-> UpstreamError(outcome.status,
                                 IF ~outcome.null /\ outcome.message # ""
                                 THEN outcome.message ELSE "Unknown error")]

\* The handler from the resolution of fetch to its response
HandleResponse(outcome) ==
    IF outcome.kind = "throw"
    THEN [stage |-> "network", resp |-> NetworkErrorResponse]
    ELSE LET data == IF outcome.parse
                     THEN [null |-> outcome.null, message |-> outcome.message,
                           errors |-> outcome.errors]
                     ELSE [null |-> FALSE, message |-> "Failed to parse response",
                           errors |-> FALSE]
             ok == outcome.status \in 200..299
         IN  IF ok
             THEN [stage |-> "accepted", resp |-> Success(200)]
             ELSE IF ~data.null /\ data.message # ""
             THEN [stage |-> "upstream",
                   resp |-> UpstreamError(outcome.status, data.message)]
             ELSE IF outcome.status = 401
             THEN [stage |-> "upstream",
                   resp |-> UpstreamError(outcome.status, "Invalid API key")]
             ELSE IF outcome.status = 429
             THEN [stage |-> "upstream",
                   resp |-> UpstreamError(outcome.status, "Rate limit exceeded")]
             ELSE IF outcome.status = 422
             THEN IF data.null
                  THEN [stage |-> "network", resp |-> NetworkErrorResponse]
                  ELSE [stage |-> "upstream",
                        resp |-> UpstreamError(outcome.status,
                                               IF data.errors
                                               THEN "JSON.stringify(data.errors)"
                                               ELSE "Validation error")]
             ELSE [stage |-> "upstream",
                   resp |-> UpstreamError(outcome.status, "Unknown error")]

Init ==
    /\ now = 0
    /\ nextSweep = cleanupInterval
    /\ emailRateLimits = <<>>
    /\ maxRequests = EMAIL_MAX_REQUESTS
    /\ windowMs = EMAIL_WINDOW_MS
    /\ ncalls = 0
    /\ last = NoOp
    /\ streak = [k \in Keys |-> 0]
    /\ windowStart = [k \in Keys |-> 0]
    /\ winNo = [k \in Keys |-> 0]
    /\ everLast = [k \in Keys |-> -1]
    /\ lastCallAt = [k \in Keys |-> -1]
    /\ admits = [k \in Keys |-> <<>>]
    /\ apiKey \in BOOLEAN
    /\ profile = "server"
    /\ pc = [h \in Handlers |-> "idle"]
    /\ req = [h \in Handlers |-> NoBody]
    /\ posts = 0
    /\ sent = [h \in Handlers |-> 0]
    /\ ended = [k \in Keys |-> [how |-> "none", at |-> -1]]
    /\ emailIn = Null
    /\ options = DefaultOptions
    /\ result = NotValidated
    /\ UtilIdle

\* A request arrives: POST starts and awaits req.json()
Receive ==
    \E h \in ActiveHandlers(profile) :
        /\ pc[h] = "idle"
        /\ posts < PostsCap(profile)
        /\ posts' = posts + 1
        /\ pc' = [pc EXCEPT ![h] = "json"]
        /\ sent' = [sent EXCEPT ![h] = 0]
        /\ last' = [op |-> "receive", h |-> h]
        /\ UNCHANGED <<now, nextSweep, emailRateLimits, maxRequests, windowMs,
                       ghostvars, apiKey, profile, req, ended, valvars, utilvars>>

\* req.json() settles: the handler runs up to its response or to the fetch call
ParseDone ==
    \E h \in ActiveHandlers(profile), body \in Bodies(profile) :
        /\ pc[h] = "json"
        /\ LET out == HandlePost(body, emailRateLimits, now, apiKey)
           IN  /\ emailRateLimits' = out.cache
               /\ IF out.checked
                  THEN Observe(body.email.v, out.rl)
                  ELSE UNCHANGED ghostvars
               /\ ended' = IF profile = "retry" /\ out.stage \in {"apikey", "fetch"}
                           THEN [ended EXCEPT ![body.email.v] =
                                    [how |-> out.stage, at |-> now]]
                           ELSE ended
               /\ IF out.done
                  THEN /\ pc' = [pc EXCEPT ![h] = "idle"]
                       /\ UNCHANGED <<req, sent>>
                       /\ last' = [op |-> "response", from |-> "json", h |-> h,
                                   body |-> body, stage |-> out.stage, resp |-> out.resp,
                                   checked |-> out.checked, sent |-> sent[h],
                                   limited |-> out.rl.limited,
                                   touched |-> out.cache # emailRateLimits]
                  ELSE /\ pc' = [pc EXCEPT ![h] = "fetch"]
                       /\ req' = [req EXCEPT ![h] = body]
                       /\ sent' = [sent EXCEPT ![h] = @ + 1]
                       /\ last' = [op |-> "fetch", from |-> "json", h |-> h,
                                   body |-> body, stage |-> out.stage, resp |-> out.resp,
                                   checked |-> out.checked, sent |-> sent[h] + 1,
                                   limited |-> out.rl.limited,
                                   touched |-> out.cache # emailRateLimits,
                                   payload |-> Payload(body)]
        /\ UNCHANGED <<now, nextSweep, maxRequests, windowMs, apiKey, profile, posts,
                       valvars, utilvars>>

\* The handler without the catch around fetch: a rejected fetch ends the
\* invocation with no response
FetchDone_noCatch ==
    \E h \in ActiveHandlers(profile), outcome \in Outcomes(profile) :
        /\ pc[h] = "fetch"
        /\ IF outcome.kind = "throw"
           THEN /\ last' = [op |-> "unhandled", h |-> h]
                /\ pc' = [pc EXCEPT ![h] = "rejected"]
                /\ ended' = IF profile = "retry"
                            THEN [ended EXCEPT ![req[h].email.v].how = "unhandled"]
                            ELSE ended
           ELSE /\ LET out == HandleResponse(outcome)
                   IN  last' = [op |-> "response", from |-> "fetch", h |-> h,
                                email |-> req[h].email,
                                stage |-> out.stage, resp |-> out.resp,
                                checked |-> TRUE, sent |-> sent[h],
                                touched |-> FALSE, outcome |-> outcome]
                /\ pc' = [pc EXCEPT ![h] = "idle"]
                /\ ended' = IF profile = "retry"
                            THEN [ended EXCEPT ![req[h].email.v].how =
                                     HandleResponse(outcome).stage]
                            ELSE ended
        /\ req' = [req EXCEPT ![h] = NoBody]
        /\ UNCHANGED <<now, nextSweep, emailRateLimits, maxRequests, windowMs,
                       ghostvars, apiKey, profile, posts, sent, valvars, utilvars>>

\* The provider answers, or the connection fails: the handler responds
FetchDone ==
    \E h \in ActiveHandlers(profile), outcome \in Outcomes(profile) :
        /\ pc[h] = "fetch"
        /\ LET out == HandleResponse(outcome)
           IN  last' = [op |-> "response", from |-> "fetch", h |-> h,
                        email |-> req[h].email,
                        stage |-> out.stage, resp |-> out.resp,
                        checked |-> TRUE, sent |-> sent[h],
                        touched |-> FALSE, outcome |-> outcome]
               /\ ended' = IF profile = "retry"
                           THEN [ended EXCEPT ![req[h].email.v].how = out.stage]
                           ELSE ended
        /\ pc' = [pc EXCEPT ![h] = "idle"]
        /\ req' = [req EXCEPT ![h] = NoBody]
        /\ UNCHANGED <<now, nextSweep, emailRateLimits, maxRequests, windowMs,
                       ghostvars, apiKey, profile, posts, sent, valvars, utilvars>>

Next == Tick \/ Sweep \/ Receive \/ ParseDone \/ FetchDone

\* The server: handlers in flight together, the sweep, the clock
Spec == Init /\ [][Next]_vars

RequestInit ==
    /\ now = 0
    /\ nextSweep = cleanupInterval
    /\ emailRateLimits = <<>>
    /\ maxRequests = EMAIL_MAX_REQUESTS
    /\ windowMs = EMAIL_WINDOW_MS
    /\ ncalls = 0
    /\ last = NoOp
    /\ streak = [k \in Keys |-> 0]
    /\ windowStart = [k \in Keys |-> 0]
    /\ winNo = [k \in Keys |-> 0]
    /\ everLast = [k \in Keys |-> -1]
    /\ lastCallAt = [k \in Keys |-> -1]
    /\ admits = [k \in Keys |-> <<>>]
    /\ apiKey \in BOOLEAN
    /\ profile = "request"
    /\ pc = [h \in Handlers |-> "idle"]
    /\ req = [h \in Handlers |-> NoBody]
    /\ posts = 0
    /\ sent = [h \in Handlers |-> 0]
    /\ ended = [k \in Keys |-> [how |-> "none", at |-> -1]]
    /\ emailIn = Null
    /\ options = DefaultOptions
    /\ result = NotValidated
    /\ UtilIdle

\* One request after the other, over every sample body
SpecRequest == RequestInit /\ [][Next]_vars

FairInit ==
    /\ now = 0
    /\ nextSweep = cleanupInterval
    /\ emailRateLimits = <<>>
    /\ maxRequests = EMAIL_MAX_REQUESTS
    /\ windowMs = EMAIL_WINDOW_MS
    /\ ncalls = 0
    /\ last = NoOp
    /\ streak = [k \in Keys |-> 0]
    /\ windowStart = [k \in Keys |-> 0]
    /\ winNo = [k \in Keys |-> 0]
    /\ everLast = [k \in Keys |-> -1]
    /\ lastCallAt = [k \in Keys |-> -1]
    /\ admits = [k \in Keys |-> <<>>]
    /\ apiKey \in BOOLEAN
    /\ profile = "fair"
    /\ pc = [h \in Handlers |-> "idle"]
    /\ req = [h \in Handlers |-> NoBody]
    /\ posts = 0
    /\ sent = [h \in Handlers |-> 0]
    /\ ended = [k \in Keys |-> [how |-> "none", at |-> -1]]
    /\ emailIn = Null
    /\ options = DefaultOptions
    /\ result = NotValidated
    /\ UtilIdle

\* Handlers in flight together, where each req.json() settles and the provider
\* eventually answers each request or the connection eventually fails
FairSpec ==
    /\ FairInit
    /\ [][Next]_vars
    /\ \A h \in Handlers :
          /\ WF_vars(pc[h] = "json" /\ ParseDone /\ pc'[h] # "json")
          /\ WF_vars(pc[h] = "fetch" /\ FetchDone /\ pc'[h] # "fetch")


RetryInit ==
    /\ now = 0
    /\ nextSweep = cleanupInterval
    /\ emailRateLimits = <<>>
    /\ maxRequests = EMAIL_MAX_REQUESTS
    /\ windowMs = EMAIL_WINDOW_MS
    /\ ncalls = 0
    /\ last = NoOp
    /\ streak = [k \in Keys |-> 0]
    /\ windowStart = [k \in Keys |-> 0]
    /\ winNo = [k \in Keys |-> 0]
    /\ everLast = [k \in Keys |-> -1]
    /\ lastCallAt = [k \in Keys |-> -1]
    /\ admits = [k \in Keys |-> <<>>]
    /\ apiKey \in BOOLEAN
    /\ profile = "retry"
    /\ pc = [h \in Handlers |-> "idle"]
    /\ req = [h \in Handlers |-> NoBody]
    /\ posts = 0
    /\ sent = [h \in Handlers |-> 0]
    /\ ended = [k \in Keys |-> [how |-> "none", at |-> -1]]
    /\ emailIn = Null
    /\ options = DefaultOptions
    /\ result = NotValidated
    /\ UtilIdle

\* The server with the ending of each admitted request kept per email
SpecRetry == RetryInit /\ [][Next]_vars

-----------------------------------------------------------------------------
(* The email validator *)

Alnum == Range(LowerLetters) \cup Range(UpperLetters) \cup Digits

\* The class of the local part in EMAIL_PATTERNS.standard, without the
\* backquote, which no string literal here can hold and no sample contains
LocalChars ==
    Alnum \cup {".", "!", "#", "$", "%", "&", "'", "*", "+", "/", "=", "?", "^",
                "_", "{", "|", "}", "~", "-"}

\* String.prototype.trim
trim(str) ==
    IF \A k \in DOMAIN str : str[k] \in Whitespace
    THEN <<>>
    ELSE LET from == CHOOSE i \in DOMAIN str :
                         /\ str[i] \notin Whitespace
                         /\ \A k \in 1..(i - 1) : str[k] \in Whitespace
             to == CHOOSE i \in DOMAIN str :
                       /\ str[i] \notin Whitespace
                       /\ \A k \in (i + 1)..Len(str) : str[k] \in Whitespace
         IN  SubSeq(str, from, to)

\* String.prototype.lastIndexOf, counted from 1: 0 when c does not occur
lastIndexOf(str, c) ==
    IF \E i \in DOMAIN str : str[i] = c
    THEN CHOOSE i \in DOMAIN str :
             str[i] = c /\ \A k \in (i + 1)..Len(str) : str[k] # c
    ELSE 0

startsWith(str, c) == Len(str) > 0 /\ str[1] = c
endsWith(str, c) == Len(str) > 0 /\ str[Len(str)] = c

\* str is one or more labels [a-zA-Z0-9](?:[a-zA-Z0-9-]{0,61}[a-zA-Z0-9])?
\* joined by dots
IsLabels(str) ==
    /\ Len(str) > 0
    /\ \A k \in DOMAIN str : str[k] \in Alnum \cup {"-", "."}
    /\ str[1] \in Alnum
    /\ str[Len(str)] \in Alnum
    /\ \A k \in 2..(Len(str) - 1) :
          str[k] = "." => (str[k - 1] \in Alnum /\ str[k + 1] \in Alnum)
    /\ \A k \in 1..(Len(str) - 63) : \E m \in k..(k + 63) : str[m] = "."

\* The positions d of str with str = X.TLD, X = str[1..d-1] and TLD two or
\* more letters: the last dot, or none
TldDots(str) ==
    {d \in 2..(Len(str) - 2) :
        /\ str[d] = "."
        /\ \A k \in (d + 1)..Len(str) : IsLetter(str[k])}

\* EMAIL_PATTERNS.basic: /^[^\s@]+@[^\s@]+\.[^\s@]+$/
PatternBasic(str) ==
    \E i \in 2..Len(str) :
        /\ str[i] = "@"
        /\ \A k \in (DOMAIN str) \ {i} : str[k] \notin Whitespace \cup {"@"}
        /\ \E j \in (i + 2)..(Len(str) - 1) : str[j] = "."

\* The standard pattern with a dot required in the domain
PatternStandard_dotRequired(str) ==
    \E i \in 2..(Len(str) - 1) :
        /\ str[i] = "@"
        /\ \A k \in 1..(i - 1) : str[k] \in LocalChars
        /\ IsLabels(SubSeq(str, i + 1, Len(str)))
        /\ \E j \in (i + 1)..Len(str) : str[j] = "."

\* EMAIL_PATTERNS.standard
PatternStandard(str) ==
    \E i \in 2..(Len(str) - 1) :
        /\ str[i] = "@"
        /\ \A k \in 1..(i - 1) : str[k] \in LocalChars
        /\ IsLabels(SubSeq(str, i + 1, Len(str)))

\* [a-zA-Z0-9][a-zA-Z0-9.-]{0,61}[a-zA-Z0-9]
StrictHost(x) ==
    /\ Len(x) \in 2..63
    /\ x[1] \in Alnum
    /\ x[Len(x)] \in Alnum
    /\ \A k \in DOMAIN x : x[k] \in Alnum \cup {".", "-"}

\* EMAIL_PATTERNS.strict
PatternStrict(str) ==
    \E i \in 3..(Len(str) - 1) :
        /\ str[i] = "@"
        /\ str[1] \in Alnum
        /\ str[i - 1] \in Alnum
        /\ \A k \in 1..(i - 1) : str[k] \in Alnum \cup {".", "_", "-"}
        /\ LET domain == SubSeq(str, i + 1, Len(str))
           IN  \E d \in TldDots(domain) : StrictHost(SubSeq(domain, 1, d - 1))

\* [a-zA-Z0-9][a-zA-Z0-9.-]{0,253}
ParanoidHost(x) ==
    /\ Len(x) \in 1..254
    /\ x[1] \in Alnum
    /\ \A k \in DOMAIN x : x[k] \in Alnum \cup {".", "-"}

\* EMAIL_PATTERNS.paranoid
PatternParanoid(str) ==
    \E i \in 2..(Len(str) - 1) :
        /\ str[i] = "@"
        /\ i - 1 <= 64
        /\ str[1] \in Alnum
        /\ \A k \in 1..(i - 1) : str[k] \in Alnum \cup {".", "_", "-"}
        /\ LET domain == SubSeq(str, i + 1, Len(str))
           IN  \E d \in TldDots(domain) : ParanoidHost(SubSeq(domain, 1, d - 1))

ValidationLevels == {"basic", "standard", "strict", "paranoid"}

EMAIL_PATTERNS(level, str) ==
    CASE level = "basic" -> PatternBasic(str)
      [] level = "standard" -> PatternStandard(str)
      [] level = "strict" -> PatternStrict(str)
      [] level = "paranoid" -> PatternParanoid(str)

\* str ends with suffix, an "@" standing somewhere before it: /@.*suffix$/
AtBeforeSuffix(str, suffix) ==
    /\ Len(str) > Len(suffix)
    /\ SubSeq(str, Len(str) - Len(suffix) + 1, Len(str)) = suffix
    /\ \E i \in 1..(Len(str) - Len(suffix)) : str[i] = "@"

\* SPAM_PATTERNS, all case-insensitive: which of them str matches, in order
SPAM_PATTERNS(str) ==
    LET low == toLowerCase(str)
    IN  <<Includes(low, <<"t","e","s","t","@","t","e","s","t">>),
          Includes(low, <<"e","x","a","m","p","l","e","@">>),
          RunBeforeAt(str, 8, Digits),
          \E w \in {<<"@","e","x","a","m","p","l","e">>, <<"@","t","e","s","t">>,
                    <<"@","t","e","m","p">>, <<"@","f","a","k","e">>,
                    <<"@","i","n","v","a","l","i","d">>,
                    <<"@","l","o","c","a","l","h","o","s","t">>} : Includes(low, w),
          RunBeforeAt(low, 20, Range(LowerLetters) \cup Digits),
          \E i \in 2..(Len(low) - 1) :
              /\ low[i] = "@"
              /\ \A k \in (DOMAIN low) \ {i} : low[k] \in Range(LowerLetters) \cup Digits,
          AtBeforeSuffix(low, <<".","l","o","c","a","l">>),
          AtBeforeSuffix(low, <<".","t","e","s","t">>)>>

DISPOSABLE_DOMAINS ==
    {<<"1","0","m","i","n","u","t","e","m","a","i","l",".","c","o","m">>,
     <<"g","u","e","r","r","i","l","l","a","m","a","i","l",".","c","o","m">>,
     <<"m","a","i","l","i","n","a","t","o","r",".","c","o","m">>,
     <<"t","e","m","p","-","m","a","i","l",".","o","r","g">>,
     <<"t","h","r","o","w","a","w","a","y",".","e","m","a","i","l">>,
     <<"y","o","p","m","a","i","l",".","c","o","m">>,
     <<"1","s","e","c","m","a","i","l",".","c","o","m">>,
     <<"g","e","t","n","a","d","a",".","c","o","m">>,
     <<"m","o","h","m","a","l",".","c","o","m">>,
     <<"t","e","m","p","a","i","l",".","c","o","m">>}

COMMON_DOMAINS ==
    {<<"g","m","a","i","l",".","c","o","m">>,
     <<"y","a","h","o","o",".","c","o","m">>,
     <<"o","u","t","l","o","o","k",".","c","o","m">>,
     <<"h","o","t","m","a","i","l",".","c","o","m">>,
     <<"i","c","l","o","u","d",".","c","o","m">>,
     <<"p","r","o","t","o","n","m","a","i","l",".","c","o","m">>,
     <<"a","o","l",".","c","o","m">>,
     <<"m","a","i","l",".","c","o","m">>,
     <<"y","a","n","d","e","x",".","c","o","m">>,
     <<"z","o","h","o",".","c","o","m">>}

\* result with one more error: the validator returns it
Fail(res, err) == [res EXCEPT !.errors = Append(@, err)]

\* spamIndicators / SPAM_PATTERNS.length > num / den
ScoreAbove(spamIndicators, num, den) == spamIndicators * den > num * 8

\* domainPart.match(/\.([a-zA-Z]+)$/) succeeds with a group of 2 letters or more
TldOk(str) ==
    \E d \in 1..(Len(str) - 2) :
        /\ str[d] = "."
        /\ \A k \in (d + 1)..Len(str) : IsLetter(str[k])

\* validateEmailAdvanced: the result object at its return
validateEmailAdvanced(email, opts) ==
    LET level == opts.level
        result0 == [isValid |-> FALSE,
                    email |-> IF Truthy(email) THEN email ELSE Str(<<>>),
                    level |-> level, errors |-> <<>>, warnings |-> <<>>,
                    spamIndicators |-> 0, normalized |-> Undefined,
                    domain |-> Undefined, isDisposable |-> Undefined]
    IN  IF email.t \in {"null", "undefined"}
        THEN Fail(result0, "Email cannot be null or undefined")
        ELSE IF email.t # "string"
        THEN Fail(result0, "Expected string input")
        ELSE
        LET trimmedEmail == trim(email.v)
        IN  IF trimmedEmail = <<>>
            THEN Fail(result0, "Email cannot be empty")
            ELSE IF Len(trimmedEmail) > opts.maxLength
            THEN Fail(result0, "Email exceeds maximum length")
            ELSE
            LET normalized == toLowerCase(trimmedEmail)
                result1 == [result0 EXCEPT !.normalized = Str(normalized),
                                           !.email = Str(trimmedEmail)]
                atIndex == lastIndexOf(normalized, "@")
                localPart == SubSeq(normalized, 1, atIndex - 1)
                domainPart == SubSeq(normalized, atIndex + 1, Len(normalized))
                result2 == [result1 EXCEPT !.domain =
                               [name |-> domainPart,
                                isCommon |-> domainPart \in COMMON_DOMAINS]]
                spamIndicators == IF opts.detectSpam
                                  THEN Count(SPAM_PATTERNS(normalized)) ELSE 0
                result3 == [result2 EXCEPT
                               !.spamIndicators = spamIndicators,
                               !.warnings = IF spamIndicators > 0
                                            THEN Append(@, "Email matches spam patterns")
                                            ELSE @]
                isDisposable == domainPart \in DISPOSABLE_DOMAINS
                result4 == IF opts.checkDisposable
                           THEN [result3 EXCEPT
                                    !.isDisposable = [t |-> "boolean", v |-> isDisposable],
                                    !.warnings =
                                        IF isDisposable
                                        THEN Append(@, "Email appears to be from a disposable email service")
                                        ELSE @]
                           ELSE result3
                strictModes == level \in {"strict", "paranoid"}
            IN  IF ~EMAIL_PATTERNS(level, normalized)
                THEN Fail(result1, "Email format is invalid")
                ELSE IF atIndex = 0
                THEN Fail(result1, "Email must contain @ symbol")
                ELSE IF Len(localPart) = 0
                THEN Fail(result2, "Email local part cannot be empty")
                ELSE IF Len(localPart) > 64
                THEN Fail(result2, "Email local part exceeds 64 character limit")
                ELSE IF Len(domainPart) = 0
                THEN Fail(result2, "Email domain cannot be empty")
                ELSE IF Len(domainPart) > 253
                THEN Fail(result2, "Email domain exceeds 253 character limit")
                ELSE IF Includes(normalized, <<".", ".">>)
                THEN Fail(result2, "Email cannot contain consecutive dots")
                ELSE IF Len(opts.allowedDomains) > 0
                        /\ domainPart \notin Range(opts.allowedDomains)
                THEN Fail(result2, "Email domain is not in the allowed list")
                ELSE IF domainPart \in Range(opts.blockedDomains)
                THEN Fail(result2, "Email domain is blocked")
                ELSE IF opts.detectSpam /\ ScoreAbove(spamIndicators, 3, 10) /\ strictModes
                THEN Fail(result3, "Email appears to be spam or test email")
                ELSE IF opts.checkDisposable /\ isDisposable /\ strictModes
                THEN Fail(result4, "Disposable email addresses are not allowed")
                ELSE IF strictModes /\ ~TldOk(domainPart)
                THEN Fail(result4, "Email domain must have a valid top-level domain")
                ELSE IF level = "paranoid"
                        /\ (startsWith(localPart, ".") \/ endsWith(localPart, "."))
                THEN Fail(result4, "Email local part cannot start or end with a dot")
                ELSE IF level = "paranoid"
                        /\ (startsWith(domainPart, "-") \/ endsWith(domainPart, "-"))
                THEN Fail(result4, "Email domain cannot start or end with hyphen")
                ELSE [result4 EXCEPT !.isValid = TRUE]

\* validateEmail: the verdict of validateEmailAdvanced at the level, other
\* options at their defaults
validateEmail(email, level) ==
    validateEmailAdvanced(email, [DefaultOptions EXCEPT !.level = level]).isValid

\* The arguments the validator is tried on
ValidatorInputs ==
    {Null, Undefined, Num(7)}
        \cup {Str(e) : e \in {<<>>, V_blank, E_ok, E_okUpper, E_noAt, E_noDot,
                              E_testTest, E_tempDom, V_dots, V_local64, V_local65,
                              V_len254, V_len255, V_padded, V_hyphen, V_label64,
                              V_yop, V_local, V_simple, V_shortTld}}

ValidatorOptions ==
    [level : ValidationLevels, checkDisposable : BOOLEAN, detectSpam : BOOLEAN,
     blockedDomains : {<<>>, <<D_gmail>>}, allowedDomains : {<<>>, <<D_gmail>>},
     maxLength : {254, Len(E_ok) - 1}]

ValidateInit ==
    /\ now = 0
    /\ nextSweep = cleanupInterval
    /\ emailRateLimits = <<>>
    /\ maxRequests = EMAIL_MAX_REQUESTS
    /\ windowMs = EMAIL_WINDOW_MS
    /\ ncalls = 0
    /\ last = NoOp
    /\ streak = [k \in Keys |-> 0]
    /\ windowStart = [k \in Keys |-> 0]
    /\ winNo = [k \in Keys |-> 0]
    /\ everLast = [k \in Keys |-> -1]
    /\ lastCallAt = [k \in Keys |-> -1]
    /\ admits = [k \in Keys |-> <<>>]
    /\ apiKey = TRUE
    /\ profile = "validator"
    /\ pc = [h \in Handlers |-> "idle"]
    /\ req = [h \in Handlers |-> NoBody]
    /\ posts = 0
    /\ sent = [h \in Handlers |-> 0]
    /\ ended = [k \in Keys |-> [how |-> "none", at |-> -1]]
    /\ emailIn \in ValidatorInputs
    /\ options \in ValidatorOptions
    /\ result = NotValidated
    /\ UtilIdle

\* validateEmailAdvanced(emailIn, options) is called
CallValidateEmailAdvanced ==
    /\ result = NotValidated
    /\ result' = [fn |-> "validateEmailAdvanced",
                  isValid |-> validateEmailAdvanced(emailIn, options).isValid,
                  out |-> validateEmailAdvanced(emailIn, options)]
    /\ UNCHANGED <<now, nextSweep, emailRateLimits, maxRequests, windowMs, last,
                   ghostvars, postvars, emailIn, options, utilvars>>

\* validateEmail(emailIn, options.level) is called
CallValidateEmail ==
    /\ result = NotValidated
    /\ result' = [fn |-> "validateEmail",
                  isValid |-> validateEmail(emailIn, options.level)]
    /\ UNCHANGED <<now, nextSweep, emailRateLimits, maxRequests, windowMs, last,
                   ghostvars, postvars, emailIn, options, utilvars>>

ValidateNext == CallValidateEmailAdvanced \/ CallValidateEmail

\* The validator applied once to each sample argument under each option set
SpecValidate == ValidateInit /\ [][ValidateNext]_vars

-----------------------------------------------------------------------------
(* Properties of the rate limiter *)

\* C1: starting from a key with no record or an expired one, the k-th
\* consecutive call made while the window that the first call opened is still
\* open returns limited = (k > maxRequests).
C1_KthCallLimited ==
    (last.op = "check" /\ now - windowStart[last.key] <= windowMs)
        => (last.limited = (streak[last.key] > maxRequests))

\* maxRequests = 1: the second of two calls in rapid succession is limited.
C1_Witness ==
    /\ last.op = "check"
    /\ maxRequests = 1
    /\ streak[last.key] = 2
    /\ now = windowStart[last.key]
    /\ last.limited

\* C2: a call for a key with no record, or with a record older than windowMs,
\* leaves the record {count: 1, lastAttempt: now} and returns limited = false.
C2_FreshResets ==
    (last.op = "check" /\ last.fresh)
        => /\ last.key \in DOMAIN emailRateLimits
           /\ emailRateLimits[last.key] = [count |-> 1, lastAttempt |-> now]
           /\ ~last.limited

C2_Witness ==
    /\ last.op = "check"
    /\ last.fresh
    /\ last.prevCount >= 2

\* C4 as stated: the count stored for a key never decreases in a step.
C4_CountNeverDecreases ==
    [][\A k \in Keys :
          (k \in DOMAIN emailRateLimits /\ k \in DOMAIN emailRateLimits')
              => emailRateLimits'[k].count >= emailRateLimits[k].count]_vars

\* C4 amended: the count of a key goes down only when a call finds the record
\* older than windowMs, and then it becomes 1; a record disappears only when
\* it is older than the cleanup interval.
C4_CountDecreasesOnlyOnReset ==
    [][\A k \in Keys :
          k \in DOMAIN emailRateLimits =>
              IF k \in DOMAIN emailRateLimits'
              THEN \/ emailRateLimits'[k].count >= emailRateLimits[k].count
                   \/ /\ emailRateLimits'[k].count = 1
                      /\ now - emailRateLimits[k].lastAttempt > windowMs
              ELSE now - emailRateLimits[k].lastAttempt > cleanupInterval]_vars

C4_Witness ==
    /\ last.op = "check"
    /\ last.prevCount = 3
    /\ emailRateLimits[last.key].count = 1

\* C5: the lastAttempt stored for a key never goes back, also across a reset
\* and across a deletion by the sweep followed by a re-creation.
C5_LastAttemptMonotone ==
    [][\A k \in Keys :
          k \in DOMAIN emailRateLimits' =>
              /\ emailRateLimits'[k].lastAttempt >= everLast[k]
              /\ k \in DOMAIN emailRateLimits
                    => emailRateLimits'[k].lastAttempt >= emailRateLimits[k].lastAttempt]_vars

\* A record that the sweep deleted has been created again.
C5_Witness ==
    /\ last.op = "check"
    /\ last.prevCount = 0
    /\ winNo[last.key] >= 2
    /\ emailRateLimits[last.key].lastAttempt > 0

-----------------------------------------------------------------------------
(* Properties of the POST handler *)

\* The step just taken ran the handler on a parsed JSON object
HandledObject ==
    /\ last.op \in {"response", "fetch"}
    /\ last.from = "json"
    /\ last.body.json

\* The handler answered 200 {success: true} without sending anything upstream
SilentlyAccepted ==
    /\ last.op = "response"
    /\ last.resp = [status |-> 200, success |-> TRUE, error |-> ""]
    /\ last.sent = 0

\* C3: with maxRequests = 1 and windowMs = 24h, two requests with the same
\* email that both pass the rate limiter are more than 24h apart, whatever the
\* interleaving of requests and sweeps.
C3_OncePerDay ==
    \A k \in Keys : \A i, j \in DOMAIN admits[k] :
        i < j => admits[k][j].time - admits[k][i].time > 24 * 60 * 60 * 1000

\* The same email passed again as early as the limiter allows.
C3_Witness ==
    /\ HandledObject
    /\ last.stage \in {"fetch", "apikey"}
    /\ Len(admits[last.body.email.v]) >= 2
    /\ \E i \in DOMAIN admits[last.body.email.v] :
          now - admits[last.body.email.v][i].time = 24 * 60 * 60 * 1000 + 1

\* C6: a submission whose email differs only in letter case from one that
\* passed the rate limiter at most 24h ago is answered 429.
C6_CaseVariantLimited ==
    (HandledObject /\ last.checked) =>
        \A k \in Keys \ {last.body.email.v} :
            (/\ toLowerCase(k) = toLowerCase(last.body.email.v)
             /\ \E i \in DOMAIN admits[k] :
                   now - admits[k][i].time <= 24 * 60 * 60 * 1000)
                => (last.op = "response" /\ last.resp.status = 429)

\* C8: a non-empty website field is answered 200 {success: true}, whatever the
\* email, name and submissionTime, without a rate-limit lookup, a change of
\* the table or an upstream call.
C8_HoneypotSilent ==
    (/\ HandledObject
     /\ last.body.website.t = "string"
     /\ Len(last.body.website.v) > 0)
        => /\ SilentlyAccepted
           /\ ~last.checked
           /\ ~last.touched

\* A filled honeypot with an invalid email, an invalid name and a fast submission.
C8_Witness ==
    /\ HandledObject
    /\ last.body.website = Str(S_url)
    /\ last.body.email = Str(E_noAt)
    /\ last.body.name = Str(N_digit)
    /\ last.body.submissionTime = Num(500)
    /\ last.op = "response"

\* C9: with an empty honeypot, a submissionTime below 2000 ms is answered
\* 200 {success: true} and nothing is sent upstream.
C9_TooFastSilent ==
    (/\ HandledObject
     /\ ~(last.body.website.t = "string" /\ Len(last.body.website.v) > 0)
     /\ last.body.submissionTime.t = "number"
     /\ last.body.submissionTime.v < 2000)
        => SilentlyAccepted

\* An otherwise acceptable request submitted after 500 ms.
C9_Witness ==
    /\ HandledObject
    /\ last.body.website = Undefined
    /\ last.body.email = Str(E_ok)
    /\ last.body.name = Undefined
    /\ last.body.submissionTime = Num(500)
    /\ last.op = "response"

\* The request trips the honeypot or the timing check
TripsHoneypotOrTiming ==
    \/ last.body.website.t = "string" /\ Len(last.body.website.v) > 0
    \/ last.body.submissionTime.t = "number" /\ last.body.submissionTime.v < 2000

\* C10 as stated: every request whose email matches a spam pattern, or that
\* trips the honeypot or the timing check, is answered 200 {success: true} and
\* is not forwarded.
C10_SpamNeverVisible ==
    (/\ HandledObject
     /\ \/ TripsHoneypotOrTiming
        \/ last.body.email.t = "string" /\ isSpamEmail(last.body.email.v))
        => SilentlyAccepted

\* C10 amended: the same for every request that trips the honeypot or the
\* timing check, or whose email matches the email pattern and a spam pattern.
C10_WellFormedSpamSilent ==
    (/\ HandledObject
     /\ \/ TripsHoneypotOrTiming
        \/ /\ last.body.email.t = "string"
           /\ EMAIL_REGEX(last.body.email.v)
           /\ isSpamEmail(last.body.email.v))
        => SilentlyAccepted

\* A well-formed spam email with an invalid name, honeypot and timing passed.
C10_Witness ==
    /\ HandledObject
    /\ last.body.website = Undefined
    /\ last.body.submissionTime = Num(5000)
    /\ last.body.email = Str(E_tempDom)
    /\ last.body.name = Str(N_digit)
    /\ last.op = "response"

\* What the fields of a parsed body say, read off the body alone
WebsiteFilled(b) == b.website.t = "string" /\ Len(b.website.v) > 0
BelowMinimum(b) == b.submissionTime.t = "number" /\ b.submissionTime.v < 2000
EmailMalformed(b) ==
    ~(b.email.t = "string" /\ Len(b.email.v) > 0 /\ EMAIL_REGEX(b.email.v))
EmailIsSpam(b) == b.email.t = "string" /\ isSpamEmail(b.email.v)
NameMalformed(b) == b.name.t = "string" /\ Len(b.name.v) > 0 /\ ~NAME_REGEX(b.name.v)

StageStops(stage, b) ==
    CASE stage = "honeypot" -> WebsiteFilled(b)
      [] stage = "timing" -> BelowMinimum(b)
      [] stage = "email" -> EmailMalformed(b)
      [] stage = "spam" -> EmailIsSpam(b)
      [] stage = "name" -> NameMalformed(b)

\* The first stage of order that stops b, "pass" if none does
FirstStop(order, b) ==
    IF \E i \in DOMAIN order : StageStops(order[i], b)
    THEN order[CHOOSE i \in DOMAIN order :
                  /\ StageStops(order[i], b)
                  /\ \A j \in 1..(i - 1) : ~StageStops(order[j], b)]
    ELSE "pass"

\* The stage that decided the step just taken, "pass" beyond the checks
DecidedBy == IF last.stage \in {"ratelimit", "apikey", "fetch"} THEN "pass" ELSE last.stage

\* C11 as stated: the request is decided by the first stage that stops it in
\* the order validator (email, name), heuristic filter (honeypot, timing,
\* spam pattern), rate limiter, forwarder.
C11_ValidatorFirst ==
    HandledObject =>
        DecidedBy = FirstStop(<<"email", "name", "honeypot", "timing", "spam">>, last.body)

\* C11 amended: the order is honeypot, timing, email syntax, spam pattern,
\* name syntax, rate limiter, forwarder; the rate limiter is reached exactly
\* when none of the checks stops the request.
C11_CodeOrder ==
    HandledObject =>
        /\ DecidedBy = FirstStop(<<"honeypot", "timing", "email", "spam", "name">>, last.body)
        /\ last.checked = (DecidedBy = "pass")
        /\ last.stage \in {"honeypot", "timing", "spam"} => SilentlyAccepted
        /\ last.stage \in {"email", "name"} => (last.op = "response" /\ last.resp.status = 400)

\* A spam email together with an overlong name is silently accepted.
C11_Witness ==
    /\ HandledObject
    /\ last.body.email = Str(E_testTest)
    /\ last.body.name = Str(N_long)
    /\ last.body.website = Str(<<>>)
    /\ last.body.submissionTime = Num(2000)
    /\ last.stage = "spam"

\* The admitted calls of the key of the step just taken that came before it
PriorAdmits ==
    LET k == last.body.email.v
    IN  IF last.limited THEN DOMAIN admits[k] ELSE 1..(Len(admits[k]) - 1)

RepeatWithinDay ==
    \E i \in PriorAdmits : now - admits[last.body.email.v][i].time <= 24 * 60 * 60 * 1000

FirstSubmission ==
    /\ winNo[last.body.email.v] = 1
    /\ streak[last.body.email.v] = 1

\* What holds of every submission that passes validation and the filters and
\* of every upstream answer, whether or not the credential is configured
RepeatAndAnswer ==
    /\ (HandledObject /\ last.checked /\ RepeatWithinDay)
          => (last.op = "response" /\ last.resp.status = 429 /\ last.sent = 0)
    /\ (last.op = "response" /\ last.from = "fetch" /\ last.outcome.kind = "response"
            /\ last.outcome.status \in 200..299)
          => last.resp = [status |-> 200, success |-> TRUE, error |-> ""]

\* C12 as stated: the first submission of an email that passes validation and
\* the filters is forwarded; an upstream 2xx is answered 200 {success: true};
\* a later submission within 24h is answered 429 and is not forwarded.
C12_FirstForwardedRepeatLimited ==
    /\ (HandledObject /\ last.checked /\ FirstSubmission)
          => (last.op = "fetch" /\ last.sent = 1 /\ last.payload.email = last.body.email.v)
    /\ RepeatAndAnswer

\* C12 amended: the same, the first submission being forwarded when the
\* upstream credential is configured.
C12_FirstForwardedWithKey ==
    /\ (HandledObject /\ last.checked /\ FirstSubmission /\ apiKey)
          => (last.op = "fetch" /\ last.sent = 1 /\ last.payload.email = last.body.email.v)
    /\ RepeatAndAnswer

\* A repeat is turned away while the first submission is still awaiting the provider.
C12_Witness ==
    /\ HandledObject
    /\ last.checked
    /\ RepeatWithinDay
    /\ last.resp.status = 429
    /\ \E h \in Handlers : pc[h] = "fetch" /\ req[h].email = last.body.email

\* C13: without the credential, a request that passes validation, the filters
\* and the rate limiter is answered 500 with an error body and nothing is sent
\* to the provider.
C13_NoKeyIs500 ==
    (/\ HandledObject
     /\ ~apiKey
     /\ FirstStop(<<"honeypot", "timing", "email", "spam", "name">>, last.body) = "pass"
     /\ ~last.limited)
        => /\ last.op = "response"
           /\ last.resp.status = 500
           /\ ~last.resp.success
           /\ last.resp.error # ""
           /\ last.sent = 0

C13_Witness ==
    /\ HandledObject
    /\ ~apiKey
    /\ last.stage = "apikey"
    /\ last.body.email = Str(E_ok)
    /\ last.body.name = Str(N_ok)
    /\ last.sent = 0

\* The step just taken answered a forwarded request after the provider answered
ProviderAnswered ==
    /\ last.op = "response"
    /\ last.from = "fetch"
    /\ last.outcome.kind = "response"

\* C14: for a forwarded request a 2xx answer of the provider yields 200
\* {success: true}, and every non-2xx answer yields an error body whose status
\* is the provider's status.
C14_MirrorsProvider ==
    ProviderAnswered =>
        IF last.outcome.status \in 200..299
        THEN last.resp = [status |-> 200, success |-> TRUE, error |-> ""]
        ELSE /\ ~last.resp.success
             /\ last.resp.error # ""
             /\ last.resp.status = last.outcome.status

\* The step just taken answered a forwarded request whose upstream call failed
\* at the network level, or whose answer had a body that is not JSON
UpstreamBroke ==
    /\ last.op = "response"
    /\ last.from = "fetch"
    /\ (last.outcome.kind = "throw" \/ ~last.outcome.parse)

\* C15 as stated: a network failure and an unparsable provider body are both
\* answered 500 with the generic network-error message, whatever the status.
C15_BrokenIs500 ==
    UpstreamBroke =>
        last.resp = [status |-> 500, success |-> FALSE,
                     error |-> "Network error. Please try again later."]

\* C15 amended: a network failure is answered 500 with the generic message; an
\* unparsable provider body is answered by the provider's status, 200
\* {success: true} for a 2xx and otherwise the provider's status with the
\* message "Subscription failed: Failed to parse response".
C15_ParseFailureFollowsStatus ==
    UpstreamBroke =>
        IF last.outcome.kind = "throw"
        THEN last.resp = [status |-> 500, success |-> FALSE,
                          error |-> "Network error. Please try again later."]
        ELSE IF last.outcome.status \in 200..299
        THEN last.resp = [status |-> 200, success |-> TRUE, error |-> ""]
        ELSE last.resp = [status |-> last.outcome.status, success |-> FALSE,
                          error |-> "Subscription failed: Failed to parse response"]

\* The provider answered 422 with a body that is not JSON: the client gets 422.
C15_Witness ==
    /\ UpstreamBroke
    /\ last.outcome.kind = "response"
    /\ last.outcome.status = 422
    /\ last.resp.status = 422

\* The terminal states, told apart by what the client and the provider see
SilentAccept == last.resp.status = 200 /\ last.resp.success /\ last.sent = 0
Rejected == last.resp.status \in {400, 429} /\ ~last.resp.success /\ last.sent = 0
Accepted == last.resp.status = 200 /\ last.resp.success /\ last.sent = 1
UpstreamRejected ==
    /\ last.sent = 1
    /\ ~last.resp.success
    /\ last.from = "fetch"
    /\ last.outcome.kind = "response"
    /\ last.resp.status = last.outcome.status
NetworkError ==
    /\ last.sent = 1
    /\ last.resp = [status |-> 500, success |-> FALSE,
                    error |-> "Network error. Please try again later."]
ConfigError == last.resp.status = 500 /\ ~last.resp.success /\ last.sent = 0

\* C16 as stated, its safety half: every response corresponds to exactly one
\* of SilentAccept, Rejected, Accepted, UpstreamRejected, NetworkError.
C16_FiveTerminalStates ==
    last.op = "response" =>
        Count(<<SilentAccept, Rejected, Accepted, UpstreamRejected, NetworkError>>) = 1

\* C16 amended: every invocation ends, with exactly one response, and the
\* response corresponds to exactly one of SilentAccept, Rejected, Accepted,
\* UpstreamRejected, NetworkError or ConfigError (500, nothing sent upstream).
C16_TerminatesInOneOfSix ==
    /\ \A h \in Handlers : (pc[h] # "idle") ~> (pc[h] = "idle")
    /\ [][\A h \in Handlers :
            (pc[h] # "idle" /\ pc'[h] = "idle")
                <=> (last'.op = "response" /\ last'.h = h)]_vars
    /\ [](last.op = "response" =>
            Count(<<SilentAccept, Rejected, Accepted, UpstreamRejected,
                    NetworkError, ConfigError>>) = 1)

\* A second invocation ended in the configuration error.
C16_Witness ==
    /\ last.op = "response"
    /\ ConfigError
    /\ last.stage = "apikey"
    /\ pc[last.h] = "idle"
    /\ posts = 2

\* C17: an invocation sends at most one HTTP POST to the provider, and sends
\* one only if the honeypot is empty, submissionTime is not below 2000 ms, the
\* email matches the email pattern and no spam pattern, the name is absent or
\* matches the name pattern, the rate limiter returned limited = false and the
\* credential is configured.
C17_AtMostOnePostAndOnlyIfClean ==
    /\ \A h \in Handlers : sent[h] <= 1
    /\ last.op = "fetch" =>
          /\ last.sent = 1
          /\ ~WebsiteFilled(last.body)
          /\ ~BelowMinimum(last.body)
          /\ last.body.email.t = "string"
          /\ EMAIL_REGEX(last.body.email.v)
          /\ ~isSpamEmail(last.body.email.v)
          /\ \/ last.body.name.t = "undefined"
             \/ last.body.name = Str(<<>>)
             \/ NAME_REGEX(last.body.name.v)
          /\ ~last.limited
          /\ apiKey

\* A request with a name, submitted after exactly 2000 ms, is forwarded.
C17_Witness ==
    /\ last.op = "fetch"
    /\ last.body.name = Str(N_ok)
    /\ last.body.submissionTime = Num(2000)
    /\ last.sent = 1
    /\ sent[last.h] = 1

\* C18: a run of the sweep removes exactly the records whose lastAttempt is
\* more than 24h before now and leaves every other record as it was, so that
\* right after a sweep no record is older than 24h.
C18_SweepRemovesExactlyExpired ==
    [][last'.op = "sweep" =>
        /\ DOMAIN emailRateLimits' =
              {k \in DOMAIN emailRateLimits :
                  now - emailRateLimits[k].lastAttempt <= 24 * 60 * 60 * 1000}
        /\ \A k \in DOMAIN emailRateLimits' : emailRateLimits'[k] = emailRateLimits[k]
        /\ \A k \in DOMAIN emailRateLimits' :
              now' - emailRateLimits'[k].lastAttempt <= 24 * 60 * 60 * 1000]_vars

\* A sweep removed one record and kept another that is exactly 24h old.
C18_Witness ==
    /\ last.op = "sweep"
    /\ \E k \in Keys : everLast[k] >= 0 /\ k \notin DOMAIN emailRateLimits
    /\ \E k \in DOMAIN emailRateLimits :
          now - emailRateLimits[k].lastAttempt = 24 * 60 * 60 * 1000

\* The admitted calls on key k in its current window
AdmittedInWindow(k) == {i \in DOMAIN admits[k] : admits[k][i].win = winNo[k]}

\* C19: whatever the interleaving of the handlers in flight, no update of a
\* record is lost (its count is the number of requests made for the key in
\* its window) and exactly one of these requests is admitted.
C19_NoLostUpdate ==
    \A k \in DOMAIN emailRateLimits :
        /\ emailRateLimits[k].count = streak[k]
        /\ Cardinality(AdmittedInWindow(k)) = 1

\* Two requests for one email in flight together: the second is answered 429
\* while the first still awaits the provider, and the count is 2.
C19_Witness ==
    /\ last.op = "response"
    /\ last.from = "json"
    /\ last.resp.status = 429
    /\ \E h \in Handlers :
          /\ h # last.h
          /\ pc[h] = "fetch"
          /\ req[h].email = last.body.email
    /\ emailRateLimits[last.body.email.v].count = 2
    /\ posts = 2

\* The validator was called at the standard level, on a string, with no domain
\* lists and the default maximum length
StandardCall ==
    /\ result.fn # "none"
    /\ options.level = "standard"
    /\ emailIn.t = "string"
    /\ \/ result.fn = "validateEmail"
       \/ /\ options.allowedDomains = <<>>
          /\ options.blockedDomains = <<>>
          /\ options.maxLength = 254

\* The part of str after its last "@" has no dot
DomainWithoutDot(str) ==
    /\ lastIndexOf(str, "@") > 0
    /\ \A k \in (lastIndexOf(str, "@") + 1)..Len(str) : str[k] # "."

\* C20 as stated: at the standard level the validator accepts every string
\* that matches the standard pattern and is at most 254 characters long, and
\* rejects every string without "@" or whose domain part has no dot.
C20_AcceptsPatternRejectsDotless ==
    StandardCall =>
        /\ (PatternStandard(emailIn.v) /\ Len(emailIn.v) <= 254) => result.isValid
        /\ (~Includes(emailIn.v, <<"@">>) \/ DomainWithoutDot(emailIn.v))
              => ~result.isValid

\* local@label: a local part of 1 to 64 characters of the local class without
\* two dots in a row, and a domain that is one label of letters, digits and
\* inner hyphens, 63 characters at most
OneLabelAddress(str) ==
    \E i \in 2..(Len(str) - 1) :
        /\ str[i] = "@"
        /\ i - 1 <= 64
        /\ \A k \in 1..(i - 1) : str[k] \in LocalChars
        /\ \A k \in 1..(i - 2) : ~(str[k] = "." /\ str[k + 1] = ".")
        /\ Len(str) - i <= 63
        /\ \A k \in (i + 1)..Len(str) : str[k] \in Alnum \cup {"-"}
        /\ str[i + 1] # "-"
        /\ str[Len(str)] # "-"

\* C20 amended: at the standard level, with default options, the validator
\* accepts a string exactly when, trimmed and lower-cased, it is at most 254
\* characters long, matches the standard pattern, has a local part of at most
\* 64 characters and has no two dots in a row; so it rejects every string
\* without "@", and it accepts local@label although the domain has no dot.
C20_StandardVerdict ==
    StandardCall =>
        LET normalized == toLowerCase(trim(emailIn.v))
        IN  /\ result.isValid =
                  (/\ Len(normalized) <= 254
                   /\ PatternStandard(normalized)
                   /\ lastIndexOf(normalized, "@") - 1 <= 64
                   /\ ~Includes(normalized, <<".", ".">>))
            /\ ~Includes(emailIn.v, <<"@">>) => ~result.isValid
            /\ OneLabelAddress(normalized) => result.isValid

\* jo@gmail is accepted at the standard level.
C20_Witness ==
    /\ StandardCall
    /\ result.fn = "validateEmailAdvanced"
    /\ emailIn = Str(E_noDot)
    /\ result.out.isValid
    /\ result.out.normalized = Str(E_noDot)
    /\ result.out.errors = <<>>

-----------------------------------------------------------------------------
(* Properties of the limiter under retries *)

\* The step is a checkRateLimit call on a key that was called before
RepeatedCall ==
    /\ last'.op = "check"
    /\ ncalls' = ncalls + 1
    /\ lastCallAt[last'.key] >= 0

-----------------------------------------------------------------------------
(* Failed submissions and the limiter *)

\* Ways in which a request that passed the limiter ends without a subscription
FailedEndings == {"apikey", "network", "upstream"}

\* C26: the rate-limit record is written before the credential check and the
\* upstream call and is never rolled back: a request that passes the limiter
\* leaves a record of its email stamped with its time, whether it then stops
\* at the credential check or goes on to the provider; the provider's answer
\* or failure leaves the table as it is; and when a request that passed the
\* limiter has ended in 500 or in an upstream rejection, a repeat of the same
\* email within 24h of its admission is answered 429 and sends nothing.
C26_FailureStillCounts ==
    [][/\ (HandledObject' /\ last'.stage \in {"apikey", "fetch"})
            => /\ last'.body.email.v \in DOMAIN emailRateLimits'
               /\ emailRateLimits'[last'.body.email.v] = [count |-> 1, lastAttempt |-> now]
       /\ (last'.op = "response" /\ last'.from = "fetch")
            => emailRateLimits' = emailRateLimits
       /\ (/\ HandledObject'
           /\ FirstStop(<<"honeypot", "timing", "email", "spam", "name">>, last'.body) = "pass"
           /\ ended[last'.body.email.v].how \in FailedEndings
           /\ now - ended[last'.body.email.v].at <= 24 * 60 * 60 * 1000)
            => /\ last'.op = "response"
               /\ last'.resp.status = 429
               /\ last'.sent = 0
               /\ ended' = ended]_vars

\* A repeat exactly 24h after a submission that failed is turned away.
C26_Witness ==
    /\ HandledObject
    /\ last.resp.status = 429
    /\ last.sent = 0
    /\ ended[last.body.email.v].how \in FailedEndings
    /\ now - ended[last.body.email.v].at = 24 * 60 * 60 * 1000

-----------------------------------------------------------------------------
(* What a request does to the table *)

\* The body is a JSON object that no check before the limiter stops
ReachesLimiter(b) ==
    /\ b.json
    /\ FirstStop(<<"honeypot", "timing", "email", "spam", "name">>, b) = "pass"

\* C28: a request that ends before the rate limiter (unparseable body,
\* honeypot, timing, invalid email, spam pattern, invalid name) leaves
\* emailRateLimits as it was; a request that reaches the limiter with email e
\* leaves e with a record and every other email's record, present or absent,
\* as it was.
C28_OnlyOwnRecord ==
    [][(last'.op \in {"response", "fetch"} /\ last'.from = "json")
          => IF ReachesLimiter(last'.body)
             THEN /\ last'.body.email.v \in DOMAIN emailRateLimits'
                  /\ \A k \in (DOMAIN emailRateLimits \cup DOMAIN emailRateLimits')
                                 \ {last'.body.email.v} :
                        /\ k \in DOMAIN emailRateLimits
                        /\ k \in DOMAIN emailRateLimits'
                        /\ emailRateLimits'[k] = emailRateLimits[k]
             ELSE emailRateLimits' = emailRateLimits]_vars

\* A request reached the limiter while the table held another email's record.
C28_Witness ==
    /\ HandledObject
    /\ last.checked
    /\ \E k \in DOMAIN emailRateLimits :
          /\ k # last.body.email.v
          /\ emailRateLimits[k].lastAttempt < now

-----------------------------------------------------------------------------
(* The route and the validator while a utility is followed *)

RouteIdle(prof) ==
    /\ now = 0
    /\ nextSweep = cleanupInterval
    /\ emailRateLimits = <<>>
    /\ maxRequests = EMAIL_MAX_REQUESTS
    /\ windowMs = EMAIL_WINDOW_MS
    /\ ncalls = 0
    /\ streak = [k \in Keys |-> 0]
    /\ windowStart = [k \in Keys |-> 0]
    /\ winNo = [k \in Keys |-> 0]
    /\ everLast = [k \in Keys |-> -1]
    /\ lastCallAt = [k \in Keys |-> -1]
    /\ admits = [k \in Keys |-> <<>>]
    /\ apiKey = TRUE
    /\ profile = prof
    /\ pc = [h \in Handlers |-> "idle"]
    /\ req = [h \in Handlers |-> NoBody]
    /\ posts = 0
    /\ sent = [h \in Handlers |-> 0]
    /\ ended = [k \in Keys |-> [how |-> "none", at |-> -1]]
    /\ emailIn = Null
    /\ options = DefaultOptions
    /\ result = NotValidated

-----------------------------------------------------------------------------
(* throttle (apps/web/src/utils/throttle.ts) *)

\* setTimeout(callback, wait) at time: the timer is due wait ms later and gets
\* the next id; clearTimeout(id) drops the timer with that id, if pending
setTimeout(s, callback, wait, time) ==
    [s EXCEPT !.timers = @ \cup {[id |-> s.nextTimer, due |-> time + Max(wait, 0),
                                  callback |-> callback]},
              !.nextTimer = @ + 1]

clearTimeout(s, id) ==
    [s EXCEPT !.timers = {t \in @ : t.id # id}]

invokeFunc(s, args, time) ==
    [s EXCEPT !.lastInvokeTime = time,
              !.lastArgs = Undefined,
              !.invoked = Append(@, [time |-> time, args |-> args])]

remainingWait(s, cfg, time) ==
    LET timeSinceLastCall ==
            time - (IF s.lastCallTime = Undefined THEN 0 ELSE s.lastCallTime.v)
        timeSinceLastInvoke == time - s.lastInvokeTime
        timeWaiting == cfg.intervalMs - timeSinceLastCall
        timeToWait == cfg.intervalMs - timeSinceLastInvoke
    IN  IF timeWaiting <= timeToWait THEN timeWaiting ELSE timeToWait

shouldInvoke(s, cfg, time) ==
    IF s.lastCallTime = Undefined
    THEN TRUE
    ELSE LET timeSinceLastCall == time - s.lastCallTime.v
             timeSinceLastInvoke == time - s.lastInvokeTime
         IN  timeSinceLastCall >= cfg.intervalMs \/ timeSinceLastInvoke >= cfg.intervalMs

\* The timer callback; the runtime has already dropped the timer that fired
trailingEdge(s, cfg, time) ==
    LET s1 == [s EXCEPT !.timerId = Undefined]
        s2 == IF cfg.trailing /\ s1.lastArgs # Undefined
              THEN invokeFunc(s1, s1.lastArgs.v, time)
              ELSE s1
    IN  [s2 EXCEPT !.lastArgs = Undefined]

startTimer(s, wait, time) ==
    LET s1 == IF s.timerId # Undefined THEN clearTimeout(s, s.timerId.v) ELSE s
    IN  [setTimeout(s1, [run |-> "trailingEdge"], wait, time)
            EXCEPT !.timerId = Num(s1.nextTimer)]

throttled(s, cfg, args, time) ==
    LET isInvoking == shouldInvoke(s, cfg, time)
        s1 == [s EXCEPT !.lastArgs = [t |-> "array", v |-> args], !.lastCallTime = Num(time),
                        !.calls = @ + 1]
    IN  IF isInvoking
        THEN IF s1.timerId = Undefined
             THEN LET s2 == IF cfg.leading
                            THEN invokeFunc([s1 EXCEPT !.lastInvokeTime = time], args, time)
                            ELSE s1
                  IN  IF cfg.trailing /\ cfg.intervalMs > 0
                      THEN startTimer(s2, cfg.intervalMs, time)
                      ELSE s2
             ELSE invokeFunc(s1, args, time)
        ELSE IF cfg.trailing /\ s1.timerId = Undefined
             THEN startTimer(s1, remainingWait(s1, cfg, time), time)
             ELSE s1

\* Variant of cancel that leaves the call and invoke times
cancel_keepTimes(s) ==
    LET s1 == IF s.timerId # Undefined
              THEN [clearTimeout(s, s.timerId.v) EXCEPT !.timerId = Undefined]
              ELSE s
    IN  [s1 EXCEPT !.lastArgs = Undefined]

cancel(s) ==
    LET s1 == IF s.timerId # Undefined
              THEN [clearTimeout(s, s.timerId.v) EXCEPT !.timerId = Undefined]
              ELSE s
    IN  [s1 EXCEPT !.lastArgs = Undefined,
                   !.lastCallTime = Undefined,
                   !.lastInvokeTime = 0]

flush(s, time) ==
    LET s1 == IF s.timerId # Undefined
              THEN [clearTimeout(s, s.timerId.v) EXCEPT !.timerId = Undefined]
              ELSE s
    IN  IF s1.lastArgs # Undefined
        THEN invokeFunc(s1, s1.lastArgs.v, time)
        ELSE s1

pending(s) == s.timerId # Undefined

ThrottleInit ==
    /\ RouteIdle("throttle")
    /\ last = NoOp
    /\ clock = 0
    /\ thrConfig \in [intervalMs : 0..MaxIntervalMs, leading : BOOLEAN,
                       trailing : BOOLEAN]
    /\ thr = FreshThrottle
    /\ waitMs = 0
    /\ deb = FreshDebounce
    /\ form = FreshForm(FALSE)
    /\ cssRun = [fn |-> "none"]

\* A millisecond passes; a timer that is due runs before the clock moves on
Advance ==
    /\ clock < MaxClock
    /\ \A t \in thr.timers \cup deb.timers : t.due > clock
    /\ clock' = clock + 1
    /\ last' = [op |-> "advance", invokedNow |-> FALSE]
    /\ UNCHANGED <<routevars, valvars, thrConfig, thr, waitMs, deb, form, cssRun>>

\* The throttled function is called; the call numbers are its arguments
CallThrottled ==
    /\ thr.calls < MaxThrottleCalls
    /\ LET args == <<thr.calls + 1>>
           s == throttled(thr, thrConfig, args, clock)
       IN  /\ thr' = s
           /\ last' = [op |-> "call", args |-> args,
                       invokedNow |-> Len(s.invoked) > Len(thr.invoked),
                       first |-> thr.lastCallTime = Undefined]
    /\ UNCHANGED <<routevars, valvars, clock, thrConfig, waitMs, deb, form, cssRun>>

\* The timer of the throttle is due and its callback, trailingEdge, runs
TimerFires ==
    \E t \in thr.timers :
        /\ t.due <= clock
        /\ LET s == trailingEdge(clearTimeout(thr, t.id), thrConfig, clock)
           IN  /\ thr' = s
               /\ last' = [op |-> "timer", hadArgs |-> thr.lastArgs # Undefined,
                           invokedNow |-> Len(s.invoked) > Len(thr.invoked)]
        /\ UNCHANGED <<routevars, valvars, clock, thrConfig, waitMs, deb, form, cssRun>>

CancelThrottle ==
    /\ thr' = [cancel(thr) EXCEPT !.controlled = TRUE]
    /\ last' = [op |-> "cancel", hadTimer |-> pending(thr),
                 hadArgs |-> thr.lastArgs # Undefined, invokedNow |-> FALSE]
    /\ UNCHANGED <<routevars, valvars, clock, thrConfig, waitMs, deb, form, cssRun>>

FlushThrottle ==
    /\ LET s == flush(thr, clock)
       IN  /\ thr' = [s EXCEPT !.controlled = TRUE]
           /\ last' = [op |-> "flush",
                       invokedNow |-> Len(s.invoked) > Len(thr.invoked)]
    /\ UNCHANGED <<routevars, valvars, clock, thrConfig, waitMs, deb, form, cssRun>>

ThrottleNext ==
    Advance \/ CallThrottled \/ TimerFires \/ CancelThrottle \/ FlushThrottle

\* A throttled function that is called, cancelled and flushed
SpecThrottle == ThrottleInit /\ [][ThrottleNext]_vars

-----------------------------------------------------------------------------
(* Properties of throttle *)

\* C21: a function returned by throttle executes fn at most once per
\* interval: whatever the leading and trailing options and the calls (without
\* cancel or flush), two successive invocations of fn are at least intervalMs
\* apart.
C21_OncePerInterval ==
    ~thr.controlled
        => \A i \in 1..(Len(thr.invoked) - 1) :
              thr.invoked[i + 1].time - thr.invoked[i].time >= thrConfig.intervalMs

\* C22: with trailing: true no call is lost: a call that does not itself
\* invoke fn leaves its arguments with a pending trailing timer, and when the
\* timer fires fn is invoked with the arguments of the most recent call; when
\* no call arrived since the last invocation the timer fires without invoking
\* fn (cancel and flush not being called).
C22_NoCallLost ==
    (thrConfig.trailing /\ ~thr.controlled)
        => /\ thr.lastArgs # Undefined
                => /\ pending(thr)
                   /\ thr.lastArgs.v = <<thr.calls>>
           /\ last.op = "timer"
                => /\ last.invokedNow <=> last.hadArgs
                   /\ last.invokedNow
                         => thr.invoked[Len(thr.invoked)].args = <<thr.calls>>

\* What a call does to a throttle that is in state a before and b after
Effect(a, b) ==
    [lastArgs |-> b.lastArgs,
     lastCallTime |-> b.lastCallTime,
     lastInvokeTime |-> b.lastInvokeTime,
     pending |-> pending(b),
     due |-> {t.due : t \in b.timers},
     invoked |-> SubSeq(b.invoked, Len(a.invoked) + 1, Len(b.invoked))]

\* C23: cancel() cancels any pending trailing execution and returns the
\* throttle to its initial state: it leaves no timer, no arguments and no
\* call or invoke time and invokes nothing; after it fn is invoked only by a
\* call of the throttled function or of flush; pending() is false; and the
\* next call does what the first call on a freshly created throttle does.
C23_CancelRestores ==
    [][/\ last'.op = "cancel"
            => /\ thr'.lastArgs = Undefined
               /\ thr'.lastCallTime = Undefined
               /\ thr'.lastInvokeTime = 0
               /\ thr'.timers = {}
               /\ ~pending(thr')
               /\ thr'.invoked = thr.invoked
       /\ last.op = "cancel"
            => /\ last'.invokedNow => last'.op \in {"call", "flush"}
               /\ last'.op = "call"
                     => Effect(thr, thr') =
                           Effect(FreshThrottle,
                                  throttled(FreshThrottle, thrConfig, last'.args, clock))]_vars

\* cancel() was called while a trailing execution was pending.
C23_Witness ==
    /\ last.op = "cancel"
    /\ last.hadTimer
    /\ last.hadArgs
    /\ Len(thr.invoked) >= 1

-----------------------------------------------------------------------------
(* debounce (sites/web/src/utils/debounce.ts) *)

\* Variant of debounced that leaves the previous timer pending
debounced_noClear(s, args, wait, time) ==
    [setTimeout(s, [run |-> "fn", args |-> args], wait, time)
        EXCEPT !.timeoutId = Num(s.nextTimer)]

\* The debounced function: the callback of the new timer holds the arguments
debounced(s, args, wait, time) ==
    LET s1 == IF Truthy(s.timeoutId) THEN clearTimeout(s, s.timeoutId.v) ELSE s
    IN  [setTimeout(s1, [run |-> "fn", args |-> args], wait, time)
            EXCEPT !.timeoutId = Num(s1.nextTimer)]

\* debounced.cancel
cancelDebounced(s) ==
    IF Truthy(s.timeoutId)
    THEN [clearTimeout(s, s.timeoutId.v) EXCEPT !.timeoutId = Null]
    ELSE s

\* The calls of the debounced function that fn has been invoked for
Served(s) == {s.invoked[i].args[1] : i \in DOMAIN s.invoked}

DebounceInit ==
    /\ RouteIdle("debounce")
    /\ last = NoOp
    /\ clock = 0
    /\ thrConfig = ThrottleDefaults
    /\ thr = FreshThrottle
    /\ waitMs \in 0..MaxIntervalMs
    /\ deb = FreshDebounce
    /\ form = FreshForm(FALSE)
    /\ cssRun = [fn |-> "none"]

\* The debounced function is called, early enough for its timer to be
\* followed; the call numbers are its arguments
CallDebounced ==
    /\ deb.calls < MaxDebounceCalls
    /\ clock + waitMs <= MaxClock
    /\ LET args == <<deb.calls + 1>>
       IN  deb' = [debounced(deb, args, waitMs, clock)
                      EXCEPT !.calls = @ + 1, !.callTimes = Append(@, clock)]
    /\ last' = [op |-> "call", invokedNow |-> FALSE]
    /\ UNCHANGED <<routevars, valvars, clock, thrConfig, thr, waitMs, form, cssRun>>

\* A timer of the debounce is due: its callback invokes fn with its arguments
TimeoutFires ==
    \E t \in deb.timers :
        /\ t.due <= clock
        /\ deb' = [clearTimeout(deb, t.id)
                      EXCEPT !.invoked = Append(@, [time |-> clock,
                                                    args |-> t.callback.args])]
        /\ last' = [op |-> "timer", invokedNow |-> TRUE]
        /\ UNCHANGED <<routevars, valvars, clock, thrConfig, thr, waitMs, form, cssRun>>

\* debounced.cancel() is called; a call that fn was not yet invoked for is
\* noted as cancelled
CancelDebounced ==
    /\ deb' = [cancelDebounced(deb)
                  EXCEPT !.cancelled = IF deb.calls \in Served(deb) \cup {0}
                                       THEN @ ELSE @ \cup {deb.calls}]
    /\ last' = [op |-> "cancel", invokedNow |-> FALSE]
    /\ UNCHANGED <<routevars, valvars, clock, thrConfig, thr, waitMs, form, cssRun>>

DebounceNext == Advance \/ CallDebounced \/ TimeoutFires \/ CancelDebounced

\* A debounced function whose timers fire when they are due
SpecDebounce ==
    /\ DebounceInit
    /\ [][DebounceNext]_vars
    /\ WF_vars(Advance)
    /\ WF_vars(TimeoutFires)

-----------------------------------------------------------------------------
(* Properties of debounce *)

\* Call k is the most recent one and fn was neither invoked for it nor was it
\* cancelled
Waiting(k) ==
    /\ deb.calls = k
    /\ k \notin Served(deb) \cup deb.cancelled

\* What holds at every moment of a debounced function
DebounceSafe ==
    /\ Cardinality(deb.timers) <= 1
    /\ \A i \in DOMAIN deb.invoked :
          LET k == deb.invoked[i].args[1]
          IN  /\ deb.invoked[i].time = deb.callTimes[k] + waitMs
              /\ k < deb.calls => deb.callTimes[k + 1] >= deb.callTimes[k] + waitMs
              /\ k \notin deb.cancelled
              /\ \A j \in DOMAIN deb.invoked : j # i => deb.invoked[j].args # <<k>>
    /\ \A k \in 1..MaxDebounceCalls :
          Waiting(k) => \E t \in deb.timers :
                            /\ t.due = deb.callTimes[k] + waitMs
                            /\ t.callback.args = <<k>>

\* C24: fn is invoked only when waitMs has elapsed since the most recent
\* call: each call cancels the invocation scheduled before it, so of a burst
\* of calls, each less than waitMs after the previous one, only the last is
\* served, once, waitMs after it and with its arguments; after cancel() the
\* pending invocation never happens; and a call that no later call and no
\* cancel() follows is served.
C24_OneInvocationAfterQuiet ==
    /\ []DebounceSafe
    /\ \A k \in 1..MaxDebounceCalls :
          Waiting(k) ~> (k \in Served(deb) \/ deb.calls > k \/ k \in deb.cancelled)

\* A burst of three calls was served once, for the last of them, after a
\* cancel() had dropped an earlier invocation.
C24_Witness ==
    /\ waitMs = 2
    /\ deb.calls = 3
    /\ deb.callTimes[3] - deb.callTimes[2] = 1
    /\ Served(deb) = {3}
    /\ deb.cancelled = {1}

-----------------------------------------------------------------------------
(* FooterNewsletterForm *)

\* Variant of the component whose render keeps what the first render showed
render_stale(f) == f

\* The component function runs: the input gets value={email} and the new
\* handleSubmit closes over email
render(f) == [f EXCEPT !.value = f.email, !.handlerEmail = f.email]

\* handleSubmit of the last render
handleSubmit(f) ==
    [f EXCEPT !.prevented = @ + 1,
              !.onSubmitCalls = IF f.hasOnSubmit THEN Append(@, f.handlerEmail) ELSE @]

FormInit ==
    /\ RouteIdle("form")
    /\ last = NoOp
    /\ clock = 0
    /\ thrConfig = ThrottleDefaults
    /\ thr = FreshThrottle
    /\ waitMs = 0
    /\ deb = FreshDebounce
    /\ \E p \in BOOLEAN : form = FreshForm(p)
    /\ cssRun = [fn |-> "none"]

\* A change event on the input with one of three texts, onChange runs
\* setEmail(e.target.value) and React renders again
Change ==
    \E v \in {<<>>, <<"a">>, <<"a", "@", "b">>} :
        /\ form.changes + form.submits < MaxFormEvents
        /\ form' = [render([form EXCEPT !.email = v]) EXCEPT !.typed = v, !.changes = @ + 1]
        /\ last' = [op |-> "change", v |-> v]
        /\ UNCHANGED <<routevars, valvars, clock, thrConfig, thr, waitMs, deb, cssRun>>

\* A submit event on the form
Submit ==
    /\ form.changes + form.submits < MaxFormEvents
    /\ form' = [handleSubmit(form) EXCEPT !.submits = @ + 1]
    /\ last' = [op |-> "submit"]
    /\ UNCHANGED <<routevars, valvars, clock, thrConfig, thr, waitMs, deb, cssRun>>

FormNext == Change \/ Submit

SpecForm == FormInit /\ [][FormNext]_vars

\* C25: the form keeps the typed email as state: after any change events the
\* input shows the value of the most recent change; each submit prevents the
\* default submission and calls onSubmit, when the prop is given, exactly once
\* with that value, the empty string if nothing was typed.
C25_SubmitsWhatWasTyped ==
    /\ form.value = form.typed
    /\ form.changes = 0 => form.value = <<>>
    /\ form.prevented = form.submits
    /\ form.hasOnSubmit
          => /\ Len(form.onSubmitCalls) = form.submits
             /\ last.op = "submit"
                   => form.onSubmitCalls[Len(form.onSubmitCalls)] = form.typed

\* The form was submitted empty and again after two changes.
C25_Witness ==
    /\ last.op = "submit"
    /\ form.hasOnSubmit
    /\ form.changes = 2
    /\ form.onSubmitCalls = <<<<>>, <<"a", "@", "b">>>>

-----------------------------------------------------------------------------
(* Variable resolution of the CSS build                                    *)
(* (packages/tailwind-config/scripts/build-static-css.ts)                  *)
(*                                                                         *)
(* CSS text and variable values are sequences of tokens: a reference       *)
(* var(--name) or a piece of text without one.                             *)

MAX_ITERATIONS == 50

Ref(name) == [k |-> "ref", n |-> name]
Lit(text) == [k |-> "lit", n |-> text]

\* The references of text in order: the matches of /var\(([^)]+)\)/g; the
\* text includes 'var(' when there is one
Matches(text) == SelectSeq(text, LAMBDA tok : tok.k = "ref")

\* text.replace(fullMatch, value): the first occurrence only
ReplaceFirst(text, name, value) ==
    IF \E i \in DOMAIN text : text[i] = Ref(name)
    THEN LET i == CHOOSE j \in DOMAIN text :
                     /\ text[j] = Ref(name)
                     /\ \A h \in 1..(j - 1) : text[h] # Ref(name)
         IN  SubSeq(text, 1, i - 1) \o value \o SubSeq(text, i + 1, Len(text))
    ELSE text

\* variableMap.get(name) is a non-empty string
Defined(variableMap, name) ==
    name \in DOMAIN variableMap /\ variableMap[name] # <<>>

RECURSIVE resolveValue(_, _, _)
RECURSIVE ResolveNested(_, _, _, _)

\* The for loop of resolveValue over the references of value
ResolveNested(varMatches, resolvedValue, variableMap, depth) ==
    IF varMatches = <<>>
    THEN [ok |-> TRUE, v |-> resolvedValue]
    ELSE LET nestedVarName == Head(varMatches).n
         IN  IF Defined(variableMap, nestedVarName)
             THEN LET fullyResolvedValue ==
                          resolveValue(variableMap[nestedVarName], variableMap, depth + 1)
                  IN  IF fullyResolvedValue.ok
                      THEN ResolveNested(Tail(varMatches),
                                         ReplaceFirst(resolvedValue, nestedVarName,
                                                      fullyResolvedValue.v),
                                         variableMap, depth)
                      ELSE [ok |-> FALSE]
             ELSE ResolveNested(Tail(varMatches), resolvedValue, variableMap, depth)

\* resolveValue at nesting depth: beyond the engine's limit the call throws
\* RangeError, which nothing catches
resolveValue(value, variableMap, depth) ==
    IF depth > StackLimit
    THEN [ok |-> FALSE]
    ELSE IF value = <<>> \/ Matches(value) = <<>>
    THEN [ok |-> TRUE, v |-> value]
    ELSE ResolveNested(Matches(value), value, variableMap, depth)

RECURSIVE FontScan(_, _, _, _)
RECURSIVE NonFontScan(_, _, _, _)

\* The inner while loop of resolveFontVariables over the references of
\* resolvedCss
FontScan(matches, newCss, hasChanges, variableMap) ==
    IF matches = <<>>
    THEN [ok |-> TRUE, css |-> newCss, hasChanges |-> hasChanges]
    ELSE LET trimmedVarName == Head(matches).n
         IN  IF Defined(variableMap, trimmedVarName)
             THEN LET value == variableMap[trimmedVarName]
                      resolvedValue == resolveValue(value, variableMap, 1)
                  IN  IF ~resolvedValue.ok
                      THEN [ok |-> FALSE]
                      ELSE IF resolvedValue.v # value
                      THEN FontScan(Tail(matches),
                                    ReplaceFirst(newCss, trimmedVarName, resolvedValue.v),
                                    TRUE, variableMap)
                      ELSE FontScan(Tail(matches), newCss, hasChanges, variableMap)
             ELSE FontScan(Tail(matches), newCss, hasChanges, variableMap)

\* The inner while loop of resolveNonFontVariables
NonFontScan(matches, newCss, hasChanges, variableMap) ==
    IF matches = <<>>
    THEN [ok |-> TRUE, css |-> newCss, hasChanges |-> hasChanges]
    ELSE LET trimmedVarName == Head(matches).n
         IN  IF Defined(variableMap, trimmedVarName)
             THEN LET value == variableMap[trimmedVarName]
                  IN  IF Matches(value) # <<>>
                      THEN NonFontScan(Tail(matches), newCss, TRUE, variableMap)
                      ELSE NonFontScan(Tail(matches),
                                       ReplaceFirst(newCss, trimmedVarName, value),
                                       TRUE, variableMap)
             ELSE NonFontScan(Tail(matches), newCss, hasChanges, variableMap)

\* Theme blocks and variable maps: flat, nested, cyclic and self-referring
\* definitions, an empty value, and references to variables that are not defined
CssSamples ==
    {<<Ref("--a")>>,
     <<Lit("font:"), Ref("--a"), Lit(","), Ref("--b")>>,
     <<Ref("--a"), Ref("--a")>>,
     <<Lit("color:red")>>,
     <<Ref("--c")>>}

MapSamples ==
    {<<>>,
     [n \in {"--a"} |-> <<Lit("red")>>],
     [n \in {"--a", "--b"} |-> IF n = "--a" THEN <<Ref("--b")>> ELSE <<Lit("red")>>],
     [n \in {"--a", "--b"} |-> IF n = "--a" THEN <<Ref("--b")>> ELSE <<Ref("--a")>>],
     [n \in {"--a"} |-> <<Lit("1px "), Ref("--a")>>],
     [n \in {"--a", "--b", "--c"} |->
         CASE n = "--a" -> <<Ref("--b"), Lit(" "), Ref("--d")>>
           [] n = "--b" -> <<Ref("--c")>>
           [] n = "--c" -> <<Lit("serif")>>],
     [n \in {"--a", "--c"} |-> IF n = "--a" THEN <<>> ELSE <<Lit("0")>>]}

CssInit ==
    /\ RouteIdle("css")
    /\ last = NoOp
    /\ clock = 0
    /\ thrConfig = ThrottleDefaults
    /\ thr = FreshThrottle
    /\ waitMs = 0
    /\ deb = FreshDebounce
    /\ form = FreshForm(FALSE)
    /\ \E f \in {"resolveFontVariables", "resolveNonFontVariables"},
          c \in CssSamples, m \in MapSamples :
          cssRun = [fn |-> f, css |-> c, variableMap |-> m, resolvedCss |-> c,
                    hasChanges |-> TRUE, iterationCount |-> 0, status |-> "running"]

\* One pass of the outer while loop of resolveFontVariables
FontPass ==
    /\ cssRun.fn = "resolveFontVariables"
    /\ cssRun.status = "running"
    /\ cssRun.hasChanges /\ cssRun.iterationCount < MAX_ITERATIONS
    /\ LET r == FontScan(Matches(cssRun.resolvedCss), cssRun.resolvedCss, FALSE,
                         cssRun.variableMap)
       IN  cssRun' = IF r.ok
                     THEN [cssRun EXCEPT !.iterationCount = @ + 1,
                                         !.hasChanges = r.hasChanges,
                                         !.resolvedCss = r.css]
                     ELSE [cssRun EXCEPT !.iterationCount = @ + 1,
                                         !.status = "threw"]
    /\ last' = [op |-> "pass"]
    /\ UNCHANGED <<routevars, valvars, clock, thrConfig, thr, waitMs, deb, form>>

\* One pass of the outer while loop of resolveNonFontVariables
NonFontPass ==
    /\ cssRun.fn = "resolveNonFontVariables"
    /\ cssRun.status = "running"
    /\ cssRun.hasChanges /\ cssRun.iterationCount < MAX_ITERATIONS
    /\ LET r == NonFontScan(Matches(cssRun.resolvedCss), cssRun.resolvedCss, FALSE,
                            cssRun.variableMap)
       IN  cssRun' = [cssRun EXCEPT !.iterationCount = @ + 1,
                                    !.hasChanges = r.hasChanges,
                                    !.resolvedCss = r.css]
    /\ last' = [op |-> "pass"]
    /\ UNCHANGED <<routevars, valvars, clock, thrConfig, thr, waitMs, deb, form>>

\* The outer loop ends and the function returns resolvedCss
ReturnCss ==
    /\ cssRun.status = "running"
    /\ ~(cssRun.hasChanges /\ cssRun.iterationCount < MAX_ITERATIONS)
    /\ cssRun' = [cssRun EXCEPT !.status = "returned"]
    /\ last' = [op |-> "return", warned |-> cssRun.iterationCount >= MAX_ITERATIONS]
    /\ UNCHANGED <<routevars, valvars, clock, thrConfig, thr, waitMs, deb, form>>

CssNext == FontPass \/ NonFontPass \/ ReturnCss

SpecCss == CssInit /\ [][CssNext]_vars

\* C29: variable resolution terminates for every theme block and variable
\* map, cyclic and nested definitions included: resolveFontVariables and
\* resolveNonFontVariables never make more than MAX_ITERATIONS = 50 passes and
\* never end otherwise than by returning a result.
C29_ResolutionReturns ==
    /\ cssRun.iterationCount <= MAX_ITERATIONS
    /\ cssRun.status \in {"running", "returned"}

====
